---- MODULE Spec2Model ----
(***************************************************************************)
(* A model of the salvium-js light-wallet core: the reorg-safe wallet      *)
(* storage and its rollback recipe, the chain tracker                      *)
(* (AlternativeChainManager), the transaction builder (transfer) and the   *)
(* JSON-RPC Node adapter (RPCClient).  Each component has its own          *)
(* specification; the variables of the other components stay at their      *)
(* initial values.                                                         *)
(***************************************************************************)
EXTENDS Integers, Sequences, FiniteSets, TLC

VARIABLES
    outputs,        \* MemoryStorage: keyImage -> WalletOutput
    transactions,   \* MemoryStorage: txHash -> WalletTransaction (its blockHeight)
    blockHashes,    \* MemoryStorage: height -> block hash
    reorg,          \* the wallet session's position in the reorg recipe
    reader,         \* what another task last saw when it read the storage
    main,           \* ChainState: the main chain, one record per height
    altBlocks,      \* AlternativeChainManager.altBlocks: hash -> BlockExtendedInfo
    invalidBlocks,  \* AlternativeChainManager.invalidBlocks
    last,           \* the last handleBlock call: its arguments, result and effects
    txn,            \* the transfer() call in progress: its position and locals
    rpc,            \* the RPCClient method in progress: its position and locals
    op,             \* the MemoryStorage method called last: its name and arguments
    lib,            \* the library function called last: its name, arguments and result
    node,           \* TestnetNode: its mempool, its blocks and its spent key images
    provider,       \* crypto/provider.js: its module variables and the calls in progress
    worker          \* the mining worker thread: its module variables and its inbox

\* The test node, the crypto provider and the mining worker.
toolVars == <<node, provider, worker>>

vars == <<outputs, transactions, blockHashes, reorg, reader,
          main, altBlocks, invalidBlocks, last, txn, rpc, op, lib, toolVars>>

storageVars == <<outputs, transactions, blockHashes, reorg, reader>>

chainVars == <<main, altBlocks, invalidBlocks, last>>

\* The null of a nullable number / of a nullable string.
NULL == 0 - 1

NoTx == "null"

(***************************************************************************)
(* Wallet storage (MemoryStorage).                                         *)
(***************************************************************************)

\* Heights range over 0..MaxHeight.
MaxHeight == 2

Heights == 0 .. MaxHeight

KeyImages == {"o1", "o2"}

TxHashes == {"tx_a"}

SpendTxs == {"tx_spend"}

\* The hash the node reports for the block at height h ("hash_" + h).
HashOf(h) == 100 + h

\* new WalletOutput({keyImage, blockHeight, amount}): every other field at
\* its default.
WalletOutput(ki, h, amt, tx, idx) ==
    [ keyImage    |-> ki,
      blockHeight |-> h,
      amount      |-> amt,
      txHash      |-> tx,
      outputIndex |-> idx,
      globalIndex |-> NULL,
      unlockHeight |-> h,
      isFrozen    |-> FALSE,
      isSpent     |-> FALSE,
      spentTxHash |-> NoTx,
      spentHeight |-> NULL ]

putOutput(outs, o) ==
    [k \in DOMAIN outs \cup {o.keyImage} |->
        IF k = o.keyImage THEN o ELSE outs[k]]

getOutput(outs, ki) ==
    IF ki \in DOMAIN outs THEN {outs[ki]} ELSE {}

\* markOutputSpent flipping the flag instead of setting it.
markOutputSpentFlipping(outs, ki, tx, h) ==
    IF ki \in DOMAIN outs
    THEN [outs EXCEPT ![ki].isSpent = ~outs[ki].isSpent,
                      ![ki].spentTxHash = tx,
                      ![ki].spentHeight = h]
    ELSE outs

markOutputSpent(outs, ki, tx, h) ==
    IF ki \in DOMAIN outs
    THEN [outs EXCEPT ![ki].isSpent = TRUE,
                      ![ki].spentTxHash = tx,
                      ![ki].spentHeight = h]
    ELSE outs

deleteOutputsAbove(outs, h) ==
    [k \in {x \in DOMAIN outs : ~(outs[x].blockHeight > h)} |-> outs[k]]

\* unspendOutputsAbove clearing outputs spent at the height itself as well.
unspendOutputsAboveOrAt(outs, h) ==
    [k \in DOMAIN outs |->
        IF outs[k].spentHeight # NULL /\ outs[k].spentHeight >= h
        THEN [outs[k] EXCEPT !.isSpent = FALSE,
                             !.spentTxHash = NoTx,
                             !.spentHeight = NULL]
        ELSE outs[k]]

\* unspendOutputsAbove clearing every spent output, whatever its height.
unspendOutputsAll(outs, h) ==
    [k \in DOMAIN outs |->
        IF outs[k].isSpent
        THEN [outs[k] EXCEPT !.isSpent = FALSE,
                             !.spentTxHash = NoTx,
                             !.spentHeight = NULL]
        ELSE outs[k]]

unspendOutputsAbove(outs, h) ==
    [k \in DOMAIN outs |->
        IF outs[k].spentHeight # NULL /\ outs[k].spentHeight > h
        THEN [outs[k] EXCEPT !.isSpent = FALSE,
                             !.spentTxHash = NoTx,
                             !.spentHeight = NULL]
        ELSE outs[k]]

putTransaction(txs, tx, h) ==
    [k \in DOMAIN txs \cup {tx} |-> IF k = tx THEN h ELSE txs[k]]

deleteTransactionsAbove(txs, h) ==
    [k \in {x \in DOMAIN txs : ~(txs[x] > h)} |-> txs[k]]

putBlockHash(bh, h, hash) ==
    [k \in DOMAIN bh \cup {h} |-> IF k = h THEN hash ELSE bh[k]]

getBlockHash(bh, h) ==
    IF h \in DOMAIN bh THEN bh[h] ELSE NULL

deleteBlockHashesAbove(bh, h) ==
    [k \in {x \in DOMAIN bh : ~(x > h)} |-> bh[k]]

EmptyMap == [k \in {} |-> NULL]

\* No handleBlock call has been made yet.
NoCall == [made |-> FALSE]

\* No transfer() call is in progress.
NoTransfer == [pc |-> "idle"]

\* No RPCClient.call is in progress.
NoRequest == [pc |-> "idle"]

\* No MemoryStorage method has been called yet.
NoOp == [name |-> "none"]

\* No library function has been called yet.
NoLib == [name |-> "none"]

\* new TestnetNode(): no block, an empty mempool, no spent key image.
\* `sent` numbers the transactions handed to sendRawTransaction and `result`
\* is what the last sendRawTransaction call returned.
NewNode ==
    [ mempool |-> <<>>, blocks |-> <<>>, spentKeyImages |-> {},
      sent |-> 0, result |-> "none" ]

\* crypto/provider.js as loaded (lines 18-19): currentBackend = null (0),
\* backendType = 'js'; no backend object made, no setCryptoBackend call in
\* progress, nothing thrown and nothing hashed yet.
ProviderLoaded ==
    [ currentBackend |-> 0, backendType |-> "js", objects |-> <<>>,
      calls |-> <<[pc |-> "idle"], [pc |-> "idle"]>>,
      thrown |-> "", hashed |-> "none" ]

\* The worker after its 'ready' message (lines 10-17): hashCount = 0,
\* currentJob = null (0), no message posted to it and no mine() running.
\* hashCount is kept modulo 64, which is all the code reads of it (line 60).
WorkerReady ==
    [ currentJob |-> 0, mining |-> {}, inbox |-> <<>>, hashCount |-> 0,
      exited |-> FALSE, posted |-> 0 ]

(***************************************************************************)
(* The wallet session: its own storage writes, and the reorg recipe.  The  *)
(* session is one sequential task, so its scanner writes do not run while  *)
(* it is inside the recipe; every awaited storage call of the recipe is a  *)
(* step of its own, and another task may run between two of them.          *)
(***************************************************************************)

Idle == [pc |-> 0, reorgHeight |-> NULL, hadAbove |-> FALSE]

\* Whether the storage holds an output, a transaction and a block hash above h.
HasDataAbove(h) ==
    /\ \E k \in DOMAIN outputs : outputs[k].blockHeight > h
    /\ \E t \in DOMAIN transactions : transactions[t] > h
    /\ \E x \in DOMAIN blockHashes : x > h

PutOutput(ki, h) ==
    /\ reorg.pc = 0
    /\ outputs' = putOutput(outputs, WalletOutput(ki, h, 1, "tx_a", 0))
    /\ UNCHANGED <<transactions, blockHashes, reorg, reader, chainVars, txn, rpc, op, lib, toolVars>>

MarkOutputSpent(ki, tx, h) ==
    /\ reorg.pc = 0
    /\ ki \in DOMAIN outputs
    /\ outputs' = markOutputSpent(outputs, ki, tx, h)
    /\ UNCHANGED <<transactions, blockHashes, reorg, reader, chainVars, txn, rpc, op, lib, toolVars>>

PutTransaction(tx, h) ==
    /\ reorg.pc = 0
    /\ transactions' = putTransaction(transactions, tx, h)
    /\ UNCHANGED <<outputs, blockHashes, reorg, reader, chainVars, txn, rpc, op, lib, toolVars>>

\* The scanner records the hash of each block it has scanned, in height
\* order (or again, for a height it already has).
PutBlockHash(h) ==
    /\ reorg.pc = 0
    /\ \A k \in Heights : k < h => k \in DOMAIN blockHashes
    /\ blockHashes' = putBlockHash(blockHashes, h, HashOf(h))
    /\ UNCHANGED <<outputs, transactions, reorg, reader, chainVars, txn, rpc, op, lib, toolVars>>

ReorgDeleteBlockHashesAtHstar ==
    /\ reorg.pc = 4
    /\ blockHashes' = deleteBlockHashesAbove(blockHashes, reorg.reorgHeight + 1)
    /\ reorg' = [reorg EXCEPT !.pc = 5]
    /\ UNCHANGED <<outputs, transactions, reader, chainVars, txn, rpc, op, lib, toolVars>>

\* "find lowest h* where local_hash(h*) # node_hash(h*)": reorgHeight = h* - 1.
ReorgDetect(hstar) ==
    /\ reorg.pc = 0
    /\ hstar \in DOMAIN blockHashes
    /\ reorg' = [pc |-> 1, reorgHeight |-> hstar - 1,
                 hadAbove |-> HasDataAbove(hstar - 1)]
    /\ UNCHANGED <<outputs, transactions, blockHashes, reader, chainVars, txn, rpc, op, lib, toolVars>>

ReorgDeleteOutputs ==
    /\ reorg.pc = 1
    /\ outputs' = deleteOutputsAbove(outputs, reorg.reorgHeight)
    /\ reorg' = [reorg EXCEPT !.pc = 2]
    /\ UNCHANGED <<transactions, blockHashes, reader, chainVars, txn, rpc, op, lib, toolVars>>

ReorgDeleteTransactions ==
    /\ reorg.pc = 2
    /\ transactions' = deleteTransactionsAbove(transactions, reorg.reorgHeight)
    /\ reorg' = [reorg EXCEPT !.pc = 3]
    /\ UNCHANGED <<outputs, blockHashes, reader, chainVars, txn, rpc, op, lib, toolVars>>

\* The recipe without its third step taking effect.
ReorgUnspendOutputsSkipped ==
    /\ reorg.pc = 3
    /\ reorg' = [reorg EXCEPT !.pc = 4]
    /\ UNCHANGED <<outputs, transactions, blockHashes, reader, chainVars, txn, rpc, op, lib, toolVars>>

ReorgUnspendOutputs ==
    /\ reorg.pc = 3
    /\ outputs' = unspendOutputsAbove(outputs, reorg.reorgHeight)
    /\ reorg' = [reorg EXCEPT !.pc = 4]
    /\ UNCHANGED <<transactions, blockHashes, reader, chainVars, txn, rpc, op, lib, toolVars>>

ReorgDeleteBlockHashes ==
    /\ reorg.pc = 4
    /\ blockHashes' = deleteBlockHashesAbove(blockHashes, reorg.reorgHeight)
    /\ reorg' = [reorg EXCEPT !.pc = 5]
    /\ UNCHANGED <<outputs, transactions, reader, chainVars, txn, rpc, op, lib, toolVars>>

\* The session resumes scanning from reorgHeight + 1.
ReorgResume ==
    /\ reorg.pc = 5
    /\ reorg' = Idle
    /\ UNCHANGED <<outputs, transactions, blockHashes, reader, chainVars, txn, rpc, op, lib, toolVars>>

\* Another task (a transaction build resumed after `await daemon.getInfo()`)
\* reads the unspent outputs.  It records how many of the recipe's four
\* steps had been applied to the state it read.
ReadOutputs ==
    /\ reader' = [stepsApplied |-> IF reorg.pc = 0 THEN 0 ELSE reorg.pc - 1,
                  inRecipe     |-> reorg.pc # 0,
                  unspent      |-> {k \in DOMAIN outputs : ~outputs[k].isSpent}]
    /\ UNCHANGED <<outputs, transactions, blockHashes, reorg, chainVars, txn, rpc, op, lib, toolVars>>

NoRead == [stepsApplied |-> 0, inRecipe |-> FALSE, unspent |-> {}]

InitStorage ==
    /\ outputs = EmptyMap
    /\ transactions = EmptyMap
    /\ blockHashes = EmptyMap
    /\ reorg = Idle
    /\ reader = NoRead
    /\ main = <<>>
    /\ altBlocks = EmptyMap
    /\ invalidBlocks = {}
    /\ last = NoCall
    /\ txn = NoTransfer
    /\ rpc = NoRequest
    /\ op = NoOp
    /\ lib = NoLib
    /\ node = NewNode
    /\ provider = ProviderLoaded
    /\ worker = WorkerReady

NextStorage ==
    \/ \E ki \in KeyImages, h \in Heights : PutOutput(ki, h)
    \/ \E ki \in KeyImages, tx \in SpendTxs, h \in Heights : MarkOutputSpent(ki, tx, h)
    \/ \E tx \in TxHashes, h \in Heights : PutTransaction(tx, h)
    \/ \E h \in Heights : PutBlockHash(h)
    \/ \E hstar \in Heights : ReorgDetect(hstar)
    \/ ReorgDeleteOutputs
    \/ ReorgDeleteTransactions
    \/ ReorgUnspendOutputs
    \/ ReorgDeleteBlockHashes
    \/ ReorgResume
    \/ ReadOutputs

SpecStorage == InitStorage /\ [][NextStorage]_vars

(***************************************************************************)
(* The storage called directly, one method after another, as its tests do  *)
(* and as the wallet tools do after a broadcast.  op names the method      *)
(* called last and its arguments, and the markOutputSpent call it came     *)
(* right after, if it did.                                                 *)
(***************************************************************************)

clear(m) == EmptyMap

\* The arguments markOutputSpent is called with: the spending tx hash and
\* the height, or neither (markOutputSpent(ki)), or the hash alone.
SpentArgs ==
    { <<tx, h>> : tx \in SpendTxs, h \in Heights }
      \cup { <<NoTx, NULL>> } \cup { <<tx, NULL>> : tx \in SpendTxs }

Called(name, ki, tx, h) ==
    [ name |-> name, ki |-> ki, tx |-> tx, h |-> h,
      after |-> IF op.name = "markOutputSpent"
                THEN [name |-> op.name, ki |-> op.ki, tx |-> op.tx, h |-> op.h]
                ELSE [name |-> "other", ki |-> "", tx |-> NoTx, h |-> NULL] ]

storeFrame == <<transactions, blockHashes, reorg, reader, chainVars, txn, rpc, lib, toolVars>>

CallPutOutput(ki, h) ==
    /\ outputs' = putOutput(outputs, WalletOutput(ki, h, 1, "tx_a", 0))
    /\ op' = Called("putOutput", ki, NoTx, h)
    /\ UNCHANGED storeFrame

CallMarkOutputSpent(ki, tx, h) ==
    /\ outputs' = markOutputSpent(outputs, ki, tx, h)
    /\ op' = Called("markOutputSpent", ki, tx, h)
    /\ UNCHANGED storeFrame

CallUnspendOutputsAbove(h) ==
    /\ outputs' = unspendOutputsAbove(outputs, h)
    /\ op' = Called("unspendOutputsAbove", "", NoTx, h)
    /\ UNCHANGED storeFrame

CallDeleteOutputsAbove(h) ==
    /\ outputs' = deleteOutputsAbove(outputs, h)
    /\ op' = Called("deleteOutputsAbove", "", NoTx, h)
    /\ UNCHANGED storeFrame

CallClear ==
    /\ outputs' = clear(outputs)
    /\ transactions' = clear(transactions)
    /\ blockHashes' = clear(blockHashes)
    /\ op' = Called("clear", "", NoTx, NULL)
    /\ UNCHANGED <<reorg, reader, chainVars, txn, rpc, lib, toolVars>>

InitStore ==
    /\ outputs = EmptyMap
    /\ transactions = EmptyMap
    /\ blockHashes = EmptyMap
    /\ reorg = Idle
    /\ reader = NoRead
    /\ main = <<>>
    /\ altBlocks = EmptyMap
    /\ invalidBlocks = {}
    /\ last = NoCall
    /\ txn = NoTransfer
    /\ rpc = NoRequest
    /\ op = NoOp
    /\ lib = NoLib
    /\ node = NewNode
    /\ provider = ProviderLoaded
    /\ worker = WorkerReady

NextStore ==
    \/ \E ki \in KeyImages, h \in Heights : CallPutOutput(ki, h)
    \/ \E ki \in KeyImages, a \in SpentArgs : CallMarkOutputSpent(ki, a[1], a[2])
    \/ \E h \in Heights : CallUnspendOutputsAbove(h)
    \/ \E h \in Heights : CallDeleteOutputsAbove(h)
    \/ CallClear

SpecStore == InitStore /\ [][NextStore]_vars

(***************************************************************************)
(* The combined reorg rollback scenario: the storage is filled in the      *)
(* order of the test, then the recipe runs from a detected h*.             *)
(***************************************************************************)

\* The outputs, the spend and the transactions of the scenario.
ScenarioOutputs ==
    << [keyImage |-> "o1", blockHeight |-> 50, amount |-> 1000],
       [keyImage |-> "o2", blockHeight |-> 100, amount |-> 2000],
       [keyImage |-> "o3", blockHeight |-> 150, amount |-> 3000] >>

ScenarioSpend == [keyImage |-> "o1", txHash |-> "tx_spend_o1", height |-> 120]

ScenarioTransactions ==
    << [txHash |-> "tx_a", blockHeight |-> 80],
       [txHash |-> "tx_b", blockHeight |-> 130] >>

\* Block hashes are put for heights 0 .. ScenarioBlocks - 1.
ScenarioBlocks == 200

\* The heights a reorg is detected at: the one the scenario names and the one
\* above it.
ScenarioReorgAt == {100, 101}

SetupOutput ==
    LET n == Cardinality(DOMAIN outputs)
    IN  /\ reorg.pc = 0
        /\ n < Len(ScenarioOutputs)
        /\ transactions = EmptyMap
        /\ outputs' = putOutput(outputs,
                         WalletOutput(ScenarioOutputs[n + 1].keyImage,
                                      ScenarioOutputs[n + 1].blockHeight,
                                      ScenarioOutputs[n + 1].amount, "tx_a", 0))
        /\ UNCHANGED <<transactions, blockHashes, reorg, reader, chainVars, txn, rpc, op, lib, toolVars>>

SetupSpend ==
    /\ reorg.pc = 0
    /\ Cardinality(DOMAIN outputs) = Len(ScenarioOutputs)
    /\ ~outputs[ScenarioSpend.keyImage].isSpent
    /\ transactions = EmptyMap
    /\ outputs' = markOutputSpent(outputs, ScenarioSpend.keyImage,
                                  ScenarioSpend.txHash, ScenarioSpend.height)
    /\ UNCHANGED <<transactions, blockHashes, reorg, reader, chainVars, txn, rpc, op, lib, toolVars>>

SetupTransaction ==
    LET n == Cardinality(DOMAIN transactions)
    IN  /\ reorg.pc = 0
        /\ ScenarioSpend.keyImage \in DOMAIN outputs
        /\ outputs[ScenarioSpend.keyImage].isSpent
        /\ n < Len(ScenarioTransactions)
        /\ transactions' = putTransaction(transactions,
                               ScenarioTransactions[n + 1].txHash,
                               ScenarioTransactions[n + 1].blockHeight)
        /\ UNCHANGED <<outputs, blockHashes, reorg, reader, chainVars, txn, rpc, op, lib, toolVars>>

SetupBlockHash ==
    LET i == Cardinality(DOMAIN blockHashes)
    IN  /\ reorg.pc = 0
        /\ Cardinality(DOMAIN transactions) = Len(ScenarioTransactions)
        /\ i < ScenarioBlocks
        /\ blockHashes' = putBlockHash(blockHashes, i, HashOf(i))
        /\ UNCHANGED <<outputs, transactions, reorg, reader, chainVars, txn, rpc, op, lib, toolVars>>

\* The session finds h* and starts the recipe with reorgHeight = h* - 1.
ScenarioReorg(hstar) ==
    /\ Cardinality(DOMAIN blockHashes) = ScenarioBlocks
    /\ ReorgDetect(hstar)

NextScenario ==
    \/ SetupOutput
    \/ SetupSpend
    \/ SetupTransaction
    \/ SetupBlockHash
    \/ \E hstar \in ScenarioReorgAt : ScenarioReorg(hstar)
    \/ ReorgDeleteOutputs
    \/ ReorgDeleteTransactions
    \/ ReorgUnspendOutputs
    \/ ReorgDeleteBlockHashes

SpecScenario == InitStore /\ [][NextScenario]_vars

(***************************************************************************)
(* Chain tracker: ChainState (the main chain) and AlternativeChainManager. *)
(***************************************************************************)

BLOCKCHAIN_TIMESTAMP_CHECK_WINDOW == 60

CRYPTONOTE_BLOCK_FUTURE_TIME_LIMIT == 7200

CRYPTONOTE_MEMPOOL_TX_FROM_ALT_BLOCK_LIVETIME == 604800

DIFFICULTY_TARGET_V2 == 120

\* Math.floor(Date.now() / 1000) during the calls.
Now == 3000000

\* buildMainChain(n): block i has hash i, timestamp 1000 + i * 120,
\* difficulty 100 and weight 300000.
StartTimestamp == 1000

BlockInterval == 120

InitDifficulty == 100

InitWeight == 300000

\* The manager is constructed on a main chain of InitShort blocks, or on one
\* that is InitShort blocks longer than the timestamp window.
InitShort == 3

InitLens == {InitShort, BLOCKCHAIN_TIMESTAMP_CHECK_WINDOW + InitShort}

\* The hashes of the blocks submitted to handleBlock.
NumNew == 2

NewHashes == 1001 .. (1000 + NumNew)

\* A submitted block's parent is one of the last ForkDepth + 1 main blocks
\* or one of the submitted hashes.
ForkDepth == 2

BlockTimestamps == {500, 2000000, Now + CRYPTONOTE_BLOCK_FUTURE_TIME_LIMIT + 1}

\* block.difficulty: undefined (NULL) or a number.
BlockDifficulties == {NULL, InitDifficulty}

\* The values nextDifficultyV2 may return for an alt chain.
AltDifficulties == {1, 150}

Range(s) == {s[i] : i \in 1 .. Len(s)}

\* ---- ChainState ----

height(m) == Len(m)

getTipHash(m) == IF Len(m) = 0 THEN NULL ELSE m[Len(m)].blockHash

getCumulativeDifficulty(m) ==
    IF Len(m) = 0 THEN 0 ELSE m[Len(m)].cumulativeDifficulty

\* The height of the block with this hash, or -1.
findBlockByHash(m, hash) ==
    IF \E i \in 1 .. Len(m) : m[i].blockHash = hash
    THEN (CHOOSE i \in 1 .. Len(m) :
            /\ m[i].blockHash = hash
            /\ \A j \in 1 .. Len(m) : m[j].blockHash = hash => i <= j) - 1
    ELSE 0 - 1

chainGetBlockHash(m, h) ==
    IF h >= 0 /\ h < Len(m) THEN m[h + 1].blockHash ELSE NULL

addBlock(m, timestamp, difficulty, weight, hash) ==
    Append(m, [ timestamp            |-> timestamp,
                cumulativeDifficulty |-> getCumulativeDifficulty(m) + difficulty,
                weight               |-> weight,
                blockHash            |-> hash ])

\* The block at 1-based position i as popBlock returns it.
PoppedBlock(m, i) ==
    [ timestamp  |-> m[i].timestamp,
      difficulty |-> m[i].cumulativeDifficulty
                       - (IF i = 1 THEN 0 ELSE m[i - 1].cumulativeDifficulty),
      weight     |-> m[i].weight,
      blockHash  |-> m[i].blockHash ]

\* rollbackToHeight(h): pops blocks until the height is h; returns the chain
\* that is left and the popped blocks, newest first.
rollbackToHeight(m, h) ==
    IF h >= Len(m)
    THEN [chain |-> m, popped |-> <<>>]
    ELSE [chain  |-> SubSeq(m, 1, h),
          popped |-> [i \in 1 .. (Len(m) - h) |-> PoppedBlock(m, Len(m) - i + 1)]]

buildMainChain(n) ==
    [i \in 1 .. n |->
        [ timestamp            |-> StartTimestamp + (i - 1) * BlockInterval,
          cumulativeDifficulty |-> i * InitDifficulty,
          weight               |-> InitWeight,
          blockHash            |-> i - 1 ]]

\* ---- consensus helpers ----

\* The k-th smallest element of a non-empty sequence of numbers.
KthSmallest(s, k) ==
    CHOOSE v \in Range(s) :
        /\ Cardinality({i \in 1 .. Len(s) : s[i] < v}) < k
        /\ Cardinality({i \in 1 .. Len(s) : s[i] <= v}) >= k

getMedianTimestamp(s) ==
    IF Len(s) = 0 THEN 0
    ELSE IF Len(s) % 2 = 1 THEN KthSmallest(s, (Len(s) + 1) \div 2)
    ELSE (KthSmallest(s, Len(s) \div 2) + KthSmallest(s, Len(s) \div 2 + 1)) \div 2

validateBlockTimestamp(timestamp, recentTs, currentTime) ==
    /\ timestamp > getMedianTimestamp(recentTs)
    /\ ~(timestamp > currentTime + CRYPTONOTE_BLOCK_FUTURE_TIME_LIMIT)

\* The last n elements of s (s.slice(-n)).
LastN(s, n) == IF Len(s) <= n THEN s ELSE SubSeq(s, Len(s) - n + 1, Len(s))

\* ---- AlternativeChainManager ----

BlockVerificationContext ==
    [ addedToMainChain |-> FALSE, addedToAltChain |-> FALSE,
      markedAsOrphaned |-> FALSE, alreadyExists |-> FALSE ]

getBlockWeightFn(block) == IF block.weight = NULL THEN 0 ELSE block.weight

BlockExtendedInfo(block, hash, h, weight, cumDiff) ==
    [ block |-> block, hash |-> hash, height |-> h, blockWeight |-> weight,
      cumulativeDifficulty |-> cumDiff ]

\* options.validateBlock(block, {height, isAlt}).  The validator of a call is
\* given by v: it rejects alt-context blocks when v.rejectAlt, and it rejects
\* the v.failAt-th main-context block it is asked about (0: none).
validateBlockFn(v, isAlt, nth) ==
    IF isAlt THEN ~v.rejectAlt ELSE nth # v.failAt

_pruneAltBlocks(m, alts) ==
    [h \in {x \in DOMAIN alts :
              ~(height(m) - alts[x].height
                  > CRYPTONOTE_MEMPOOL_TX_FROM_ALT_BLOCK_LIVETIME
                      \div DIFFICULTY_TARGET_V2)} |-> alts[h]]

\* The result of a handler: the new state and the verification context.
Outcome(m, alts, inv, bvc, sw) ==
    [ main |-> m, altBlocks |-> alts, invalidBlocks |-> inv, bvc |-> bvc,
      switch |-> sw ]

NoSwitch == [attempted |-> FALSE]

_addToMainChain(m, alts, inv, block, hash, v) ==
    LET weight == getBlockWeightFn(block)
        difficulty == IF block.difficulty # NULL THEN block.difficulty ELSE 0
        orphaned == Outcome(m, alts, inv \cup {hash},
                            [BlockVerificationContext EXCEPT !.markedAsOrphaned = TRUE],
                            NoSwitch)
        tsList == [i \in 1 .. Len(m) |-> m[i].timestamp]
    IN  IF /\ Len(m) >= BLOCKCHAIN_TIMESTAMP_CHECK_WINDOW
           /\ ~validateBlockTimestamp(block.timestamp,
                  LastN(tsList, BLOCKCHAIN_TIMESTAMP_CHECK_WINDOW), Now)
        THEN orphaned
        ELSE IF ~validateBlockFn(v, FALSE, 1)
        THEN orphaned
        ELSE LET m2 == addBlock(m, block.timestamp, difficulty, weight, hash)
             IN  Outcome(m2, _pruneAltBlocks(m2, alts), inv,
                         [BlockVerificationContext EXCEPT !.addedToMainChain = TRUE],
                         NoSwitch)

RECURSIVE WalkAlt(_, _, _, _)
\* Walk backward through the alt blocks from hash; fuel bounds the walk by the
\* number of alt blocks.
WalkAlt(alts, hash, acc, fuel) ==
    IF hash \in DOMAIN alts /\ fuel > 0
    THEN WalkAlt(alts, alts[hash].block.prevHash, <<hash>> \o acc, fuel - 1)
    ELSE [altChain |-> acc, root |-> hash]

_buildAltChain(m, alts, prevHash) ==
    LET w == WalkAlt(alts, prevHash, <<>>, Cardinality(DOMAIN alts))
        altChain == w.altChain
        splitHeight == findBlockByHash(m, w.root)
        windowStart ==
            IF splitHeight + 1 - BLOCKCHAIN_TIMESTAMP_CHECK_WINDOW > 0
            THEN splitHeight + 1 - BLOCKCHAIN_TIMESTAMP_CHECK_WINDOW ELSE 0
        n == splitHeight - windowStart + 1
    IN  IF splitHeight < 0
        THEN [ altChain |-> altChain, splitHeight |-> 0, timestamps |-> <<>>,
               cumulativeDifficulties |-> <<>> ]
        ELSE [ altChain |-> altChain, splitHeight |-> splitHeight,
               timestamps |->
                   [i \in 1 .. n |-> m[windowStart + i].timestamp]
                   \o [i \in 1 .. Len(altChain) |-> alts[altChain[i]].block.timestamp],
               cumulativeDifficulties |->
                   [i \in 1 .. n |-> m[windowStart + i].cumulativeDifficulty]
                   \o [i \in 1 .. Len(altChain) |->
                         alts[altChain[i]].cumulativeDifficulty] ]

\* nextDifficultyV2 is given as d, the value it returns for this window.
_getDifficultyForAltChain(cumulativeDifficulties, d) ==
    IF Len(cumulativeDifficulties) < 2 THEN 1 ELSE d

\* _rollbackChainSwitching re-applying the popped blocks newest first.
_rollbackChainSwitchingNewestFirst(m, originalBlocks, rollbackHeight) ==
    LET base == rollbackToHeight(m, rollbackHeight).chain
        n == Len(originalBlocks)
        F[k \in 0 .. n] ==
            IF k = 0 THEN base
            ELSE LET b == originalBlocks[k]
                 IN  addBlock(F[k - 1], b.timestamp, b.difficulty, b.weight, b.blockHash)
    IN  F[n]

_rollbackChainSwitching(m, originalBlocks, rollbackHeight) ==
    LET base == rollbackToHeight(m, rollbackHeight).chain
        n == Len(originalBlocks)
        F[k \in 0 .. n] ==
            IF k = 0 THEN base
            ELSE LET b == originalBlocks[n - k + 1]
                 IN  addBlock(F[k - 1], b.timestamp, b.difficulty, b.weight, b.blockHash)
    IN  F[n]

\* StoreDisconnected with the popped blocks dropped.
StoreDisconnectedNone(m, alts, disconnected, oldHeight) == alts

\* Step 4 of the switch: the popped main blocks, newest first, are stored as
\* alternative blocks; their parent hash is read from the chain as it is now.
StoreDisconnected(m, alts, disconnected, oldHeight) ==
    LET n == Len(disconnected)
        F[k \in 0 .. n] ==
            IF k = 0 THEN alts
            ELSE LET popped == disconnected[k]
                     disconnectedHeight == oldHeight - k
                     altInfo == BlockExtendedInfo(
                         [ timestamp  |-> popped.timestamp,
                           prevHash   |-> IF disconnectedHeight > 0
                                          THEN chainGetBlockHash(m, disconnectedHeight - 1)
                                          ELSE NULL,
                           difficulty |-> popped.difficulty,
                           weight     |-> NULL ],
                         popped.blockHash, disconnectedHeight, popped.weight, 0)
                 IN  IF popped.blockHash # NULL
                     THEN [h \in DOMAIN F[k - 1] \cup {popped.blockHash} |->
                             IF h = popped.blockHash THEN altInfo ELSE F[k - 1][h]]
                     ELSE F[k - 1]
    IN  F[n]

\* Step 2 of the switch: the alt chain's blocks are validated and appended in
\* order, up to the first one the validator rejects.
ApplyAltChain(base, altChain, v) ==
    LET n == Len(altChain)
        F[k \in 0 .. n] ==
            IF k = 0 THEN [chain |-> base, success |-> TRUE, applied |-> 0]
            ELSE IF ~F[k - 1].success THEN F[k - 1]
            ELSE LET altBlockInfo == altChain[k]
                     c == F[k - 1].chain
                     difficulty ==
                         altBlockInfo.cumulativeDifficulty
                           - (IF F[k - 1].applied > 0
                              THEN altChain[k - 1].cumulativeDifficulty
                              ELSE getCumulativeDifficulty(c))
                 IN  IF ~validateBlockFn(v, FALSE, k)
                     THEN [F[k - 1] EXCEPT !.success = FALSE]
                     ELSE [ chain   |-> addBlock(c, altBlockInfo.block.timestamp,
                                                 difficulty, altBlockInfo.blockWeight,
                                                 altBlockInfo.hash),
                            success |-> TRUE,
                            applied |-> k ]
    IN  F[n]

\* _switchToAlternativeChain calling onReorg before the check of success, so
\* that a failed switch emits an event as well.
_switchToAlternativeChainEmittingFirst(m, alts, altChain, splitHeight, v) ==
    LET oldHeight == height(m)
        rb == rollbackToHeight(m, splitHeight + 1)
        disconnected == rb.popped
        ap == ApplyAltChain(rb.chain, altChain, v)
        stored == StoreDisconnected(ap.chain, alts, disconnected, oldHeight)
        appliedHashes == {altChain[i].hash : i \in 1 .. ap.applied}
        event == [ splitHeight |-> splitHeight,
                   oldHeight |-> oldHeight,
                   newHeight |-> height(ap.chain),
                   blocksDisconnected |-> Len(disconnected),
                   blocksConnected |-> ap.applied ]
    IN  [ main |-> IF ap.success THEN ap.chain
                   ELSE _rollbackChainSwitching(ap.chain, disconnected, splitHeight + 1),
          altBlocks |-> IF ap.success
                        THEN [h \in DOMAIN stored \ appliedHashes |-> stored[h]]
                        ELSE alts,
          success |-> ap.success,
          attempted |-> TRUE,
          splitHeight |-> splitHeight,
          disconnected |-> disconnected,
          applied |-> [i \in 1 .. ap.applied |-> altChain[i].hash],
          events |-> <<event>> ]

\* _switchToAlternativeChain without step 5: the applied blocks stay in the
\* alt map.
_switchToAlternativeChainKeepingApplied(m, alts, altChain, splitHeight, v) ==
    LET oldHeight == height(m)
        rb == rollbackToHeight(m, splitHeight + 1)
        disconnected == rb.popped
        ap == ApplyAltChain(rb.chain, altChain, v)
        stored == StoreDisconnected(ap.chain, alts, disconnected, oldHeight)
    IN  [ main |-> IF ap.success THEN ap.chain
                   ELSE _rollbackChainSwitching(ap.chain, disconnected, splitHeight + 1),
          altBlocks |-> IF ap.success THEN stored ELSE alts,
          success |-> ap.success,
          attempted |-> TRUE,
          splitHeight |-> splitHeight,
          disconnected |-> disconnected,
          applied |-> [i \in 1 .. ap.applied |-> altChain[i].hash],
          events |-> IF ap.success
                     THEN << [ splitHeight |-> splitHeight,
                               oldHeight |-> oldHeight,
                               newHeight |-> height(ap.chain),
                               blocksDisconnected |-> Len(disconnected),
                               blocksConnected |-> ap.applied ] >>
                     ELSE <<>> ]

\* altChain is the full alt chain (a sequence of BlockExtendedInfo) from the
\* split to the new tip.  The result holds the new chain and alt map, whether
\* the switch succeeded, and the events passed to the onReorg callback the
\* manager was constructed with.
_switchToAlternativeChain(m, alts, altChain, splitHeight, v) ==
    LET oldHeight == height(m)
        rb == rollbackToHeight(m, splitHeight + 1)
        disconnected == rb.popped
        ap == ApplyAltChain(rb.chain, altChain, v)
        stored == StoreDisconnected(ap.chain, alts, disconnected, oldHeight)
        appliedHashes == {altChain[i].hash : i \in 1 .. ap.applied}
    IN  IF ~ap.success
        THEN [ main |-> _rollbackChainSwitching(ap.chain, disconnected, splitHeight + 1),
               altBlocks |-> alts,
               success |-> FALSE,
               attempted |-> TRUE,
               splitHeight |-> splitHeight,
               disconnected |-> disconnected,
               applied |-> [i \in 1 .. ap.applied |-> altChain[i].hash],
               events |-> <<>> ]
        ELSE [ main |-> ap.chain,
               altBlocks |-> [h \in DOMAIN stored \ appliedHashes |-> stored[h]],
               success |-> TRUE,
               attempted |-> TRUE,
               splitHeight |-> splitHeight,
               disconnected |-> disconnected,
               applied |-> [i \in 1 .. ap.applied |-> altChain[i].hash],
               events |-> << [ splitHeight |-> splitHeight,
                               oldHeight |-> oldHeight,
                               newHeight |-> height(ap.chain),
                               blocksDisconnected |-> Len(disconnected),
                               blocksConnected |-> ap.applied ] >> ]

\* SwitchBvc with the context left marked as added to the alt chain.
SwitchBvcKeepAlt(bvc, switchResult) ==
    IF switchResult
    THEN [bvc EXCEPT !.addedToMainChain = TRUE]
    ELSE bvc

\* The verification context after the switch attempt of an alt block.
SwitchBvc(bvc, switchResult) ==
    IF switchResult
    THEN [bvc EXCEPT !.addedToMainChain = TRUE, !.addedToAltChain = FALSE]
    ELSE bvc

_handleAlternativeBlock(m, alts, inv, block, hash, v, d) ==
    LET prevHash == block.prevHash
        bc == _buildAltChain(m, alts, prevHash)
        altHeight == bc.splitHeight + Len(bc.altChain) + 1
        allTimestamps == bc.timestamps
        orphanedBvc == [BlockVerificationContext EXCEPT !.markedAsOrphaned = TRUE]
        altDifficulty == _getDifficultyForAltChain(bc.cumulativeDifficulties, d)
        prevCumDiff ==
            IF Len(bc.cumulativeDifficulties) > 0
            THEN bc.cumulativeDifficulties[Len(bc.cumulativeDifficulties)]
            ELSE 0
        altCumulativeDifficulty == prevCumDiff + altDifficulty
        altBlockInfo == BlockExtendedInfo(block, hash, altHeight,
                                          getBlockWeightFn(block),
                                          altCumulativeDifficulty)
        alts2 == [h \in DOMAIN alts \cup {hash} |->
                    IF h = hash THEN altBlockInfo ELSE alts[h]]
        fullAltChain == [i \in 1 .. Len(bc.altChain) |-> alts[bc.altChain[i]]]
                          \o <<altBlockInfo>>
        sw == _switchToAlternativeChain(m, alts2, fullAltChain, bc.splitHeight, v)
    IN  IF /\ Len(allTimestamps) >= BLOCKCHAIN_TIMESTAMP_CHECK_WINDOW
           /\ block.timestamp <= getMedianTimestamp(
                  LastN(allTimestamps, BLOCKCHAIN_TIMESTAMP_CHECK_WINDOW))
        THEN Outcome(m, alts, inv \cup {hash}, orphanedBvc, NoSwitch)
        ELSE IF block.timestamp > Now + CRYPTONOTE_BLOCK_FUTURE_TIME_LIMIT
        THEN Outcome(m, alts, inv, orphanedBvc, NoSwitch)
        ELSE IF ~validateBlockFn(v, TRUE, 0)
        THEN Outcome(m, alts, inv \cup {hash}, orphanedBvc, NoSwitch)
        ELSE IF altCumulativeDifficulty > getCumulativeDifficulty(m)
        THEN Outcome(sw.main, sw.altBlocks, inv,
                     SwitchBvc([BlockVerificationContext EXCEPT !.addedToAltChain = TRUE],
                               sw.success),
                     sw)
        ELSE Outcome(m, alts2, inv,
                     [BlockVerificationContext EXCEPT !.addedToAltChain = TRUE],
                     NoSwitch)

\* handleBlock without the check of the parent against the known-invalid set.
handleBlockWithoutParentCheck(m, alts, inv, block, blockHash, v, d) ==
    LET prevHash == block.prevHash
    IN  IF findBlockByHash(m, blockHash) >= 0 \/ blockHash \in DOMAIN alts
        THEN Outcome(m, alts, inv,
                     [BlockVerificationContext EXCEPT !.alreadyExists = TRUE], NoSwitch)
        ELSE IF blockHash \in inv
        THEN Outcome(m, alts, inv,
                     [BlockVerificationContext EXCEPT !.markedAsOrphaned = TRUE], NoSwitch)
        ELSE IF prevHash = getTipHash(m)
        THEN _addToMainChain(m, alts, inv, block, blockHash, v)
        ELSE IF findBlockByHash(m, prevHash) >= 0 \/ prevHash \in DOMAIN alts
        THEN _handleAlternativeBlock(m, alts, inv, block, blockHash, v, d)
        ELSE Outcome(m, alts, inv,
                     [BlockVerificationContext EXCEPT !.markedAsOrphaned = TRUE], NoSwitch)

\* handleBlock looking for a duplicate in the main chain only.
handleBlockWithoutAltDuplicateCheck(m, alts, inv, block, blockHash, v, d) ==
    LET prevHash == block.prevHash
    IN  IF findBlockByHash(m, blockHash) >= 0
        THEN Outcome(m, alts, inv,
                     [BlockVerificationContext EXCEPT !.alreadyExists = TRUE], NoSwitch)
        ELSE IF blockHash \in inv
        THEN Outcome(m, alts, inv,
                     [BlockVerificationContext EXCEPT !.markedAsOrphaned = TRUE], NoSwitch)
        ELSE IF prevHash \in inv
        THEN Outcome(m, alts, inv \cup {blockHash},
                     [BlockVerificationContext EXCEPT !.markedAsOrphaned = TRUE], NoSwitch)
        ELSE IF prevHash = getTipHash(m)
        THEN _addToMainChain(m, alts, inv, block, blockHash, v)
        ELSE IF findBlockByHash(m, prevHash) >= 0 \/ prevHash \in DOMAIN alts
        THEN _handleAlternativeBlock(m, alts, inv, block, blockHash, v, d)
        ELSE Outcome(m, alts, inv,
                     [BlockVerificationContext EXCEPT !.markedAsOrphaned = TRUE], NoSwitch)

\* handleBlock, lines 548-588.
handleBlock(m, alts, inv, block, blockHash, v, d) ==
    LET prevHash == block.prevHash
    IN  IF findBlockByHash(m, blockHash) >= 0 \/ blockHash \in DOMAIN alts
        THEN Outcome(m, alts, inv,
                     [BlockVerificationContext EXCEPT !.alreadyExists = TRUE], NoSwitch)
        ELSE IF blockHash \in inv
        THEN Outcome(m, alts, inv,
                     [BlockVerificationContext EXCEPT !.markedAsOrphaned = TRUE], NoSwitch)
        ELSE IF prevHash \in inv
        THEN Outcome(m, alts, inv \cup {blockHash},
                     [BlockVerificationContext EXCEPT !.markedAsOrphaned = TRUE], NoSwitch)
        ELSE IF prevHash = getTipHash(m)
        THEN _addToMainChain(m, alts, inv, block, blockHash, v)
        ELSE IF findBlockByHash(m, prevHash) >= 0 \/ prevHash \in DOMAIN alts
        THEN _handleAlternativeBlock(m, alts, inv, block, blockHash, v, d)
        ELSE Outcome(m, alts, inv,
                     [BlockVerificationContext EXCEPT !.markedAsOrphaned = TRUE], NoSwitch)

\* The hashes a submitted block may name as its parent.
PrevChoices ==
    {main[i].blockHash : i \in {j \in 1 .. Len(main) : j >= Len(main) - ForkDepth}}
      \cup NewHashes

Validators == [rejectAlt : BOOLEAN, failAt : 0 .. NumNew]

\* acm.handleBlock(block, blockHash)
HandleBlock(blockHash, block, v, d) ==
    LET out == handleBlock(main, altBlocks, invalidBlocks, block, blockHash, v, d)
    IN  /\ main' = out.main
        /\ altBlocks' = out.altBlocks
        /\ invalidBlocks' = out.invalidBlocks
        /\ last' = [ made |-> TRUE, hash |-> blockHash, prevHash |-> block.prevHash,
                     timestamp |-> block.timestamp,
                     bvc |-> out.bvc, mainBefore |-> main, switch |-> out.switch ]
        /\ UNCHANGED <<storageVars, txn, rpc, op, lib, toolVars>>

InitChain ==
    /\ main \in {buildMainChain(n) : n \in InitLens}
    /\ altBlocks = EmptyMap
    /\ invalidBlocks = {}
    /\ last = NoCall
    /\ txn = NoTransfer
    /\ rpc = NoRequest
    /\ op = NoOp
    /\ lib = NoLib
    /\ node = NewNode
    /\ provider = ProviderLoaded
    /\ worker = WorkerReady
    /\ outputs = EmptyMap
    /\ transactions = EmptyMap
    /\ blockHashes = EmptyMap
    /\ reorg = Idle
    /\ reader = NoRead

\* The block's own difficulty field and the validator's answer for one block
\* are read only when the block extends the tip; the difficulty computed for
\* an alt block and the validator's answers during a switch only otherwise;
\* of a block whose hash is already stored or known invalid only the parent
\* hash may be read.  The inputs a path does not read are held at one value.
\* New hashes are interchangeable names: a block not seen before takes the
\* smallest hash not yet recorded anywhere.
SeenHashes ==
    {main[i].blockHash : i \in 1 .. Len(main)} \cup DOMAIN altBlocks \cup invalidBlocks

\* The hashes a block is submitted under: a new one, or again one of a block
\* in the alt map or among the last main blocks.
SubmittedHashes ==
    NewHashes \cup DOMAIN altBlocks
      \cup {main[i].blockHash : i \in {j \in 1 .. Len(main) : j >= Len(main) - ForkDepth}}

FreshOrSeen(blockHash) ==
    blockHash \in SeenHashes
        \cup {f \in NewHashes \ SeenHashes : \A h \in NewHashes \ SeenHashes : f <= h}

RelevantInputs(blockHash, prevHash, ts, difficulty, v, d) ==
    /\ v.rejectAlt => v.failAt = 0
    /\ prevHash = getTipHash(main) =>
           ~v.rejectAlt /\ v.failAt <= 1 /\ d = 1
    /\ prevHash # getTipHash(main) => difficulty = InitDifficulty
    /\ blockHash \in SeenHashes =>
           /\ ts = 2000000 /\ difficulty = InitDifficulty /\ d = 1
           /\ ~v.rejectAlt /\ v.failAt = 0

NextChain ==
    \E blockHash \in {h \in SubmittedHashes : FreshOrSeen(h)}, prevHash \in PrevChoices :
      \E ts \in BlockTimestamps, difficulty \in BlockDifficulties,
         v \in Validators, d \in AltDifficulties :
        /\ RelevantInputs(blockHash, prevHash, ts, difficulty, v, d)
        /\ HandleBlock(blockHash,
                       [ prevHash |-> prevHash, timestamp |-> ts,
                         difficulty |-> difficulty, weight |-> InitWeight ],
                       v, d)

SpecChain == InitChain /\ [][NextChain]_vars

\* ---- pruning of the alt map ----

\* The manager is constructed on a main chain of PruneLen blocks, longer than
\* the age at which an alt block is pruned (5040 heights).
PruneLen == 5044

\* The number of blocks submitted to it; their hashes are not those of the
\* main blocks (0 .. PruneLen - 1).
PruneNew == 3

PruneHashes == (PruneLen + 1) .. (PruneLen + PruneNew)

InitPrune ==
    /\ main = buildMainChain(PruneLen)
    /\ altBlocks = EmptyMap
    /\ invalidBlocks = {}
    /\ last = NoCall
    /\ txn = NoTransfer
    /\ rpc = NoRequest
    /\ op = NoOp
    /\ lib = NoLib
    /\ node = NewNode
    /\ provider = ProviderLoaded
    /\ worker = WorkerReady
    /\ outputs = EmptyMap
    /\ transactions = EmptyMap
    /\ blockHashes = EmptyMap
    /\ reorg = Idle
    /\ reader = NoRead

\* acm.handleBlock(block, blockHash) of a block not seen before (it takes the
\* smallest unused hash) whose parent is stored: the second main block, one
\* of the last two main blocks, or a submitted block in the alt map.  The
\* validator accepts every block.
NextPrune ==
    \E blockHash \in {h \in PruneHashes \ SeenHashes :
                        \A g \in PruneHashes \ SeenHashes : h <= g},
       prevHash \in {main[i].blockHash :
                       i \in {j \in 1 .. Len(main) : j = 2 \/ j >= Len(main) - 1}}
                      \cup (PruneHashes \cap DOMAIN altBlocks),
       d \in AltDifficulties :
        HandleBlock(blockHash,
                    [ prevHash |-> prevHash, timestamp |-> 2000000,
                      difficulty |-> InitDifficulty, weight |-> InitWeight ],
                    [rejectAlt |-> FALSE, failAt |-> 0], d)

SpecPrune == InitPrune /\ [][NextPrune]_vars

(***************************************************************************)
(* Transaction builder: transfer() and resolveGlobalIndices().  Every      *)
(* awaited call is a suspension point, so the call is one action per       *)
(* stretch of code between two awaits; the node's answers are inputs.      *)
(***************************************************************************)

WalletKeys == {"o1", "o2", "o3"}

\* The order in which storage.getOutputs returns the outputs.
KeyOrder == <<"o1", "o2", "o3">>

OutputAmount == [o1 |-> 6, o2 |-> 5, o3 |-> 4]

OutputTx == [o1 |-> "tx_a", o2 |-> "tx_a", o3 |-> "tx_b"]

OutputIndexInTx == [o1 |-> 0, o2 |-> 1, o3 |-> 0]

\* The global indices the node holds for the outputs of each transaction.
NodeIndexes == [tx_a |-> <<10, 11>>, tx_b |-> <<20>>]

\* The height the node reports in getInfo.
TipHeight == MaxHeight

\* The amounts a caller asks transfer to send to its one destination.
TxAmounts == {1, 5, 20}

\* The wallet a transfer starts from: the outputs in cached have their
\* global index resolved already, those in frozen are frozen.
TxWallet(cached, frozen) ==
    [k \in WalletKeys |->
        [WalletOutput(k, 1, OutputAmount[k], OutputTx[k], OutputIndexInTx[k])
            EXCEPT !.globalIndex =
                       IF k \in cached
                       THEN NodeIndexes[OutputTx[k]][OutputIndexInTx[k] + 1]
                       ELSE NULL,
                   !.isFrozen = k \in frozen]]

\* ---- transaction.js ----

FeeBase == 1

FeePerInput == 1

FeePerOutput == 1

estimateTransactionFee(numInputs, numOutputs) ==
    FeeBase + FeePerInput * numInputs + FeePerOutput * numOutputs

SumAmounts(outs, keys) ==
    LET F[i \in 0 .. Len(KeyOrder)] ==
            IF i = 0 THEN 0
            ELSE F[i - 1] + (IF KeyOrder[i] \in keys THEN outs[KeyOrder[i]].amount ELSE 0)
    IN  F[Len(KeyOrder)]

\* selectUTXOs(utxos, target, feePerInput, options): the selections it may
\* return.  A selection reaches the target; when the spendable outputs
\* cannot reach it, the one result is the empty selection.  What the selector
\* adds to the target for feePerInput is not fixed here: any selection that
\* reaches the target is a possible result.
selectUTXOs(outs, spendable, target, feePerInput) ==
    LET reaching == {s \in SUBSET spendable :
                        s # {} /\ SumAmounts(outs, s) >= target}
    IN  IF reaching = {}
        THEN {[selected |-> {}, changeAmount |-> 0]}
        ELSE {[selected |-> s, changeAmount |-> SumAmounts(outs, s) - target] :
                  s \in reaching}

\* ---- wallet-store.js ----

isSpendable(o, currentHeight) ==
    ~o.isSpent /\ ~o.isFrozen /\ o.unlockHeight <= currentHeight

\* storage.getOutputs({isSpent: false, isFrozen: false}): the keys of the
\* stored objects it returns.  The objects are the stored ones, not copies.
getOutputs(outs) ==
    {k \in DOMAIN outs : ~outs[k].isSpent /\ ~outs[k].isFrozen}

\* ---- transfer.js ----

\* The selected outputs in the order of the selection.
SelectedSeq(keys) == SelectSeq(KeyOrder, LAMBDA k : k \in keys)

RECURSIVE Dedup(_)
Dedup(s) ==
    IF s = <<>> THEN <<>>
    ELSE LET rest == Dedup(Tail(s))
         IN  IF \E i \in 1 .. Len(rest) : rest[i] = Head(s)
             THEN <<Head(s)>> \o SelectSeq(rest, LAMBDA x : x # Head(s))
             ELSE <<Head(s)>> \o rest

\* resolveGlobalIndices, lines 59-67: the transactions to ask the node
\* about, in the order of their first selected output without a cached
\* global index.
byTx(outs, selected) ==
    LET uncached == SelectSeq(SelectedSeq(selected),
                              LAMBDA k : outs[k].globalIndex = NULL)
    IN  Dedup([i \in 1 .. Len(uncached) |-> outs[uncached[i]].txHash])

\* resolveGlobalIndices, lines 74-81: the stored outputs after the node's
\* answer for txHash; count is the length of o_indexes.
StoreIndexes(outs, selected, txHash, count) ==
    [k \in DOMAIN outs |->
        IF /\ k \in selected
           /\ outs[k].globalIndex = NULL
           /\ outs[k].txHash = txHash
           /\ outs[k].outputIndex < count
        THEN [outs[k] EXCEPT !.globalIndex = NodeIndexes[txHash][outs[k].outputIndex + 1]]
        ELSE outs[k]]

Failed(error) == [txn EXCEPT !.pc = "failed", !.error = error]

txFrame == <<transactions, blockHashes, reorg, reader, chainVars, rpc, op, lib, toolVars>>

\* transfer(), lines 101-132: the destinations are parsed and getInfo is
\* awaited.
TransferStart(amount, validAddress, subtractFeeFromAmount, dryRun) ==
    /\ txn.pc = "idle"
    /\ txn' = [ pc |-> IF validAddress THEN "getInfo" ELSE "failed",
                error |-> IF validAddress THEN "" ELSE "Invalid address",
                totalSend |-> amount,
                destAmount |-> amount,
                subtractFeeFromAmount |-> subtractFeeFromAmount,
                dryRun |-> dryRun,
                currentHeight |-> NULL,
                selected |-> {},
                pending |-> <<>>,
                inputs |-> {},
                reply |-> [answered |-> FALSE],
                fee |-> 0,
                before |-> outputs ]
    /\ UNCHANGED <<outputs, txFrame>>

\* Lines 132-137: getInfo has answered; storage.getOutputs is awaited.
GetInfoResponse(success) ==
    /\ txn.pc = "getInfo"
    /\ txn' = IF success
              THEN [txn EXCEPT !.pc = "getOutputs", !.currentHeight = TipHeight]
              ELSE Failed("Failed to get daemon info")
    /\ UNCHANGED <<outputs, txFrame>>

\* Lines 137-190 and resolveGlobalIndices up to its first await: the
\* spendable outputs are filtered, the fee is estimated, inputs are selected,
\* the fee is recomputed, and the outputs without a global index are grouped.
SelectInputs(selection) ==
    LET spendable == {k \in getOutputs(outputs) :
                          isSpendable(outputs[k], txn.currentHeight)}
        estimatedFee == estimateTransactionFee(2, 1 + 1)
        target == IF txn.subtractFeeFromAmount
                  THEN txn.totalSend ELSE txn.totalSend + estimatedFee
        finalFee == estimateTransactionFee(
                        Cardinality(selection.selected),
                        1 + (IF selection.changeAmount > 0 THEN 1 ELSE 0))
        destAmount == IF txn.subtractFeeFromAmount
                      THEN txn.destAmount - finalFee ELSE txn.destAmount
        groups == byTx(outputs, selection.selected)
    IN  /\ txn.pc = "getOutputs"
        /\ spendable # {} => selection \in selectUTXOs(outputs, spendable, target,
                                                         estimatedFee \div 2)
        /\ txn' = IF spendable = {}
                  THEN Failed("No spendable outputs available")
                  ELSE IF selection.selected = {}
                  THEN Failed("Insufficient balance")
                  ELSE IF txn.subtractFeeFromAmount /\ destAmount <= 0
                  THEN [Failed("Amount too small to cover fee")
                            EXCEPT !.fee = finalFee, !.destAmount = destAmount]
                  ELSE [txn EXCEPT !.pc = IF groups = <<>> THEN "prepare" ELSE "resolve",
                                   !.selected = selection.selected,
                                   !.pending = groups,
                                   !.fee = finalFee,
                                   !.destAmount = destAmount]
        /\ UNCHANGED <<outputs, txFrame>>

\* resolveGlobalIndices, lines 69-82: one getOutputIndexes answer.
GetOutputIndexesResponse(success, count) ==
    /\ txn.pc = "resolve"
    /\ IF ~success
       THEN /\ txn' = Failed("Failed to get output indexes")
            /\ UNCHANGED outputs
       ELSE /\ outputs' = StoreIndexes(outputs, txn.selected, Head(txn.pending), count)
            /\ txn' = [txn EXCEPT !.pending = Tail(txn.pending),
                                  !.pc = IF Tail(txn.pending) = <<>>
                                         THEN "prepare" ELSE "resolve"]
    /\ UNCHANGED txFrame

\* Lines 192-250: every selected output is handed to prepareInputs
\* (ownedForPrep, lines 197-216), which has answered with one ring per owned
\* output; the transaction is built from them, signed and serialized, and
\* unless dryRun it is sent.
PrepareInputsResponse(decoysOk, buildOk) ==
    /\ txn.pc = "prepare"
    /\ txn' = IF ~decoysOk THEN Failed("Failed to fetch decoys")
              ELSE IF ~buildOk THEN Failed("Failed to build transaction")
              ELSE [txn EXCEPT !.pc = IF txn.dryRun THEN "done" ELSE "send",
                               !.inputs = txn.selected]
    /\ UNCHANGED <<outputs, txFrame>>

\* The fields of a sendRawTransaction reply that may carry the node's status:
\* RPCClient.post and the test node put the node's body under result, other
\* replies carry it under data or data.result.
StatusFields == {"result", "data", "data.result"}

\* Lines 250-272: sendRawTransaction has answered with success and with the
\* node's status under the given field of the reply.
SendRawTransactionResponse(success, status, field) ==
    LET reply == [answered |-> TRUE, success |-> success, status |-> status,
                  field |-> field]
        dataStatus == IF field = "data" THEN status ELSE "undefined"
        dataResultStatus == IF field = "data.result" THEN status ELSE "undefined"
    IN  /\ txn.pc = "send"
        /\ txn' = IF ~success
                  THEN [Failed("Failed to broadcast") EXCEPT !.reply = reply]
                  ELSE IF dataStatus # "OK" /\ dataResultStatus # "OK"
                  THEN [Failed("Transaction rejected") EXCEPT !.reply = reply]
                  ELSE [txn EXCEPT !.pc = "done", !.reply = reply]
        /\ UNCHANGED <<outputs, txFrame>>

\* The call has returned or thrown; the caller may call again.
TransferReturn ==
    /\ txn.pc \in {"done", "failed"}
    /\ txn' = NoTransfer
    /\ UNCHANGED <<outputs, txFrame>>

InitTx ==
    /\ outputs \in {TxWallet(cached, frozen) :
                      cached \in SUBSET WalletKeys, frozen \in SUBSET {"o2"}}
    /\ transactions = EmptyMap
    /\ blockHashes = EmptyMap
    /\ reorg = Idle
    /\ reader = NoRead
    /\ main = <<>>
    /\ altBlocks = EmptyMap
    /\ invalidBlocks = {}
    /\ last = NoCall
    /\ txn = NoTransfer
    /\ rpc = NoRequest
    /\ op = NoOp
    /\ lib = NoLib
    /\ node = NewNode
    /\ provider = ProviderLoaded
    /\ worker = WorkerReady

Selections ==
    [selected : SUBSET WalletKeys, changeAmount : 0 .. SumAmounts(outputs, WalletKeys)]

NextTx ==
    \/ \E amount \in TxAmounts, validAddress, subtractFee, dryRun \in BOOLEAN :
           TransferStart(amount, validAddress, subtractFee, dryRun)
    \/ \E success \in BOOLEAN : GetInfoResponse(success)
    \/ \E selection \in Selections : SelectInputs(selection)
    \/ \E success \in BOOLEAN, count \in 0 .. 2 : GetOutputIndexesResponse(success, count)
    \/ \E decoysOk, buildOk \in BOOLEAN : PrepareInputsResponse(decoysOk, buildOk)
    \/ \E success \in BOOLEAN, status \in {"OK", "Failed"}, field \in StatusFields :
           SendRawTransactionResponse(success, status, field)
    \/ TransferReturn

SpecTx == InitTx /\ [][NextTx]_vars

\* ---- sweep() ----

\* MAX_SWEEP_INPUTS, the cap on the inputs of one sweep transaction.
MAX_SWEEP_INPUTS == 60

\* The wallet of a sweep holds up to MaxSpendable outputs.
MaxSpendable == 62

\* The sum of the amounts of the outputs keys of a wallet keyed 1 .. n.
SweepTotal(outs, keys) ==
    LET n == Cardinality(DOMAIN outs)
        F[i \in 0 .. n] ==
            IF i = 0 THEN 0
            ELSE F[i - 1] + (IF i \in keys THEN outs[i].amount ELSE 0)
    IN  F[n]

\* sweep(), lines 287-302: the destination is parsed and getInfo is awaited.
SweepStart(validAddress, dryRun) ==
    /\ txn.pc = "idle"
    /\ txn' = [ pc |-> IF validAddress THEN "getInfo" ELSE "failed",
                error |-> IF validAddress THEN "" ELSE "Invalid address",
                dryRun |-> dryRun,
                currentHeight |-> NULL,
                selected |-> {},
                pending |-> <<>>,
                inputs |-> {},
                reply |-> [answered |-> FALSE],
                fee |-> 0,
                destAmount |-> 0,
                before |-> outputs ]
    /\ UNCHANGED <<outputs, txFrame>>

\* sweep(), lines 306-333: storage.getOutputs has answered; every spendable
\* output is taken, the fee for that many inputs and one output is
\* estimated, and the rest of the total is the amount sent.  The outputs of
\* the wallet have their global index already, so resolveGlobalIndices asks
\* the node nothing (lines 60-64).
SweepInputs ==
    LET spendable == {k \in getOutputs(outputs) :
                          isSpendable(outputs[k], txn.currentHeight)}
        totalAmount == SweepTotal(outputs, spendable)
        estimatedFee == estimateTransactionFee(Cardinality(spendable), 1)
        sendAmount == totalAmount - estimatedFee
    IN  /\ txn.pc = "getOutputs"
        /\ txn' = IF spendable = {}
                  THEN Failed("No spendable outputs available")
                  ELSE IF sendAmount <= 0
                  THEN [Failed("Total balance is too small to cover fee")
                            EXCEPT !.fee = estimatedFee]
                  ELSE [txn EXCEPT !.pc = "prepare",
                                   !.selected = spendable,
                                   !.fee = estimatedFee,
                                   !.destAmount = sendAmount]
        /\ UNCHANGED <<outputs, txFrame>>

\* The wallet of a sweep: outputs 1 .. n with amounts 1 to 3, the first one
\* frozen or not, the second one still locked or not, each with the global
\* index the node gave it.
InitSweep ==
    /\ outputs \in
         {[i \in 1 .. n |->
             [WalletOutput(i, 1, 1 + (i % 3), "tx_s", i - 1)
                 EXCEPT !.globalIndex = 100 + i,
                        !.isFrozen = (i = 1 /\ frozen),
                        !.unlockHeight = IF i = 2 /\ locked
                                         THEN TipHeight + 1 ELSE 1]] :
            n \in 0 .. MaxSpendable, frozen \in BOOLEAN, locked \in BOOLEAN}
    /\ transactions = EmptyMap
    /\ blockHashes = EmptyMap
    /\ reorg = Idle
    /\ reader = NoRead
    /\ main = <<>>
    /\ altBlocks = EmptyMap
    /\ invalidBlocks = {}
    /\ last = NoCall
    /\ txn = NoTransfer
    /\ rpc = NoRequest
    /\ op = NoOp
    /\ lib = NoLib
    /\ node = NewNode
    /\ provider = ProviderLoaded
    /\ worker = WorkerReady

\* The steps of sweep after the selection are those of transfer: the awaited
\* prepareInputs (346), the build (351-372) and the broadcast (374-383).
NextSweep ==
    \/ \E validAddress, dryRun \in BOOLEAN : SweepStart(validAddress, dryRun)
    \/ \E success \in BOOLEAN : GetInfoResponse(success)
    \/ SweepInputs
    \/ \E decoysOk, buildOk \in BOOLEAN : PrepareInputsResponse(decoysOk, buildOk)
    \/ \E success \in BOOLEAN, status \in {"OK", "Failed"}, field \in StatusFields :
           SendRawTransactionResponse(success, status, field)
    \/ TransferReturn

SpecSweep == InitSweep /\ [][NextSweep]_vars

(***************************************************************************)
(* Node adapter: RPCClient and its call, post and get.  One action per     *)
(* stretch of code between two awaits (the fetch, the sleep before a       *)
(* retry); the node's answer to each request is an input.                  *)
(***************************************************************************)

RPC_ERROR_CODES ==
    [ INTERNAL_ERROR |-> 0 - 32603, METHOD_NOT_FOUND |-> 0 - 32601,
      NETWORK_ERROR |-> 0 - 3, TIMEOUT_ERROR |-> 0 - 4,
      AUTHENTICATION_ERROR |-> 0 - 5 ]

\* The code of the error left by a BUSY reply that is retried.
BusyCode == 0 - 1

\* The largest options.retries a client is made with.
MaxRetries == 2

\* A retryDelay a caller passes, in ms.
GivenRetryDelay == 250

\* The three request methods of the client.
Methods == {"call", "post", "get"}

\* The options objects a client is made from: retries and retryDelay are each
\* given or left out; a given retries is any integer from -1 up.
ClientOptions ==
    { [url |-> "node"] }
      \cup { [url |-> "node", retries |-> r] : r \in (0 - 1) .. MaxRetries }
      \cup { [url |-> "node", retryDelay |-> GivenRetryDelay] }
      \cup { [url |-> "node", retries |-> r, retryDelay |-> GivenRetryDelay] :
               r \in (0 - 1) .. MaxRetries }

\* constructor, lines 78-79: options.retries || 0, options.retryDelay || 1000.
RPCClient(options) ==
    [ retries |-> IF "retries" \in DOMAIN options /\ options.retries # 0
                  THEN options.retries ELSE 0,
      retryDelay |-> IF "retryDelay" \in DOMAIN options /\ options.retryDelay # 0
                     THEN options.retryDelay ELSE 1000 ]

\* What one request may come back with: a result with status OK or BUSY, an
\* error body (with a code, or with code 0), a JSON body with neither result
\* nor error, HTTP 401, another HTTP error, a body that is not JSON, a
\* transport failure, or no answer within the timeout.
Responses ==
    { [kind |-> "ok"], [kind |-> "busy"],
      [kind |-> "rpc_error", code |-> RPC_ERROR_CODES.METHOD_NOT_FOUND],
      [kind |-> "rpc_error", code |-> 0],
      [kind |-> "empty"],
      [kind |-> "http_401"], [kind |-> "http_error"], [kind |-> "bad_json"],
      [kind |-> "network_error"], [kind |-> "timeout"] }

\* The responses that make fetch, the status check or response.json() throw.
Thrown == {"http_error", "bad_json", "network_error", "timeout"}

\* An error object, and the null that lastError starts as.
RPCError(code) == [isNull |-> FALSE, code |-> code]

NullError == [isNull |-> TRUE, code |-> 0]

Failure(error) == [success |-> FALSE, error |-> error]

\* The result field of a success: data.result for call (undefined when the
\* body has none), the whole parsed body for post and get.
Success(method, resp) ==
    [ success |-> TRUE,
      result |-> IF method = "call" /\ resp.kind \in {"empty", "rpc_error"}
                 THEN "undefined" ELSE resp.kind ]

\* Disposition with an error body handled like a thrown error.
DispositionRetryingRpcError(method, resp, attempt, attempts) ==
    IF resp.kind = "http_401"
    THEN [do |-> "return",
          result |-> Failure(RPCError(RPC_ERROR_CODES.AUTHENTICATION_ERROR))]
    ELSE IF resp.kind \in Thrown \cup {"rpc_error"}
    THEN [do |-> IF attempt < attempts THEN "sleep" ELSE "exhausted",
          lastError |-> RPCError(IF resp.kind = "timeout"
                                 THEN RPC_ERROR_CODES.TIMEOUT_ERROR
                                 ELSE RPC_ERROR_CODES.NETWORK_ERROR)]
    ELSE IF resp.kind = "busy" /\ method # "get" /\ attempt < attempts
    THEN [do |-> "sleep", lastError |-> RPCError(BusyCode)]
    ELSE [do |-> "return", result |-> Success(method, resp)]

\* Disposition with the catch block leaving the same error for an abort as for
\* any other thrown error.
DispositionWithoutTimeoutCode(method, resp, attempt, attempts) ==
    IF resp.kind = "http_401"
    THEN [do |-> "return",
          result |-> Failure(RPCError(RPC_ERROR_CODES.AUTHENTICATION_ERROR))]
    ELSE IF resp.kind \in Thrown
    THEN [do |-> IF attempt < attempts THEN "sleep" ELSE "exhausted",
          lastError |-> RPCError(RPC_ERROR_CODES.NETWORK_ERROR)]
    ELSE IF resp.kind = "rpc_error" /\ method = "call"
    THEN [do |-> "return",
          result |-> Failure(RPCError(IF resp.code # 0 THEN resp.code
                                      ELSE RPC_ERROR_CODES.INTERNAL_ERROR))]
    ELSE IF resp.kind = "busy" /\ method # "get" /\ attempt < attempts
    THEN [do |-> "sleep", lastError |-> RPCError(BusyCode)]
    ELSE [do |-> "return", result |-> Success(method, resp)]

\* The loop body of call (lines 163-231), post (251-307) and get (327-385):
\* what it does with one response.  Only call looks for an error body; call
\* and post retry a BUSY status, get does not look at the status.
Disposition(method, resp, attempt, attempts) ==
    IF resp.kind = "http_401"
    THEN [do |-> "return",
          result |-> Failure(RPCError(RPC_ERROR_CODES.AUTHENTICATION_ERROR))]
    ELSE IF resp.kind \in Thrown
    THEN [do |-> IF attempt < attempts THEN "sleep" ELSE "exhausted",
          lastError |-> RPCError(IF resp.kind = "timeout"
                                 THEN RPC_ERROR_CODES.TIMEOUT_ERROR
                                 ELSE RPC_ERROR_CODES.NETWORK_ERROR)]
    ELSE IF resp.kind = "rpc_error" /\ method = "call"
    THEN [do |-> "return",
          result |-> Failure(RPCError(IF resp.code # 0 THEN resp.code
                                      ELSE RPC_ERROR_CODES.INTERNAL_ERROR))]
    ELSE IF resp.kind = "busy" /\ method # "get" /\ attempt < attempts
    THEN [do |-> "sleep", lastError |-> RPCError(BusyCode)]
    ELSE [do |-> "return", result |-> Success(method, resp)]

rpcFrame == <<storageVars, chainVars, txn, op, lib, toolVars>>

\* A client is made from options and one of its methods is called: lastError
\* is null, attempts is retries + 1, and the first request is sent when the
\* loop runs at all; when it does not, the method returns lastError at once.
Call(method, options) ==
    LET client == RPCClient(options)
        attempts == client.retries + 1
        started == [ pc |-> "waiting", method |-> method,
                     defaults |-> DOMAIN options = {"url"},
                     retryDelay |-> client.retryDelay, attempts |-> attempts,
                     attempt |-> 1, responses |-> <<>>, waited |-> 0,
                     lastError |-> NullError, result |-> Failure(NullError) ]
    IN  /\ rpc.pc = "idle"
        /\ rpc' = IF 1 <= attempts THEN started
                  ELSE [started EXCEPT !.pc = "returned"]
        /\ UNCHANGED rpcFrame

\* The request of this attempt has come back.
Respond(resp) ==
    LET d == Disposition(rpc.method, resp, rpc.attempt, rpc.attempts)
        seen == [rpc EXCEPT !.responses = Append(@, resp)]
    IN  /\ rpc.pc = "waiting"
        /\ rpc' = IF d.do = "return"
                  THEN [seen EXCEPT !.pc = "returned", !.result = d.result]
                  ELSE IF d.do = "exhausted"
                  THEN [seen EXCEPT !.pc = "returned", !.lastError = d.lastError,
                                    !.result = Failure(d.lastError)]
                  ELSE [seen EXCEPT !.pc = "sleeping", !.lastError = d.lastError]
        /\ UNCHANGED rpcFrame

\* _sleep(retryDelay) has resolved: the next attempt's request is sent.
Wake ==
    /\ rpc.pc = "sleeping"
    /\ rpc' = [rpc EXCEPT !.pc = "waiting", !.attempt = @ + 1,
                          !.waited = @ + rpc.retryDelay]
    /\ UNCHANGED rpcFrame

\* The caller has its answer; a new call may be made.
CallReturn ==
    /\ rpc.pc = "returned"
    /\ rpc' = NoRequest
    /\ UNCHANGED rpcFrame

InitRpc ==
    /\ outputs = EmptyMap
    /\ transactions = EmptyMap
    /\ blockHashes = EmptyMap
    /\ reorg = Idle
    /\ reader = NoRead
    /\ main = <<>>
    /\ altBlocks = EmptyMap
    /\ invalidBlocks = {}
    /\ last = NoCall
    /\ txn = NoTransfer
    /\ rpc = NoRequest
    /\ op = NoOp
    /\ lib = NoLib
    /\ node = NewNode
    /\ provider = ProviderLoaded
    /\ worker = WorkerReady

NextRpc ==
    \/ \E method \in Methods, options \in ClientOptions : Call(method, options)
    \/ \E resp \in Responses : Respond(resp)
    \/ Wake
    \/ CallReturn

SpecRpc == InitRpc /\ [][NextRpc]_vars

(***************************************************************************)
(* Claims about the chain tracker.                                         *)
(***************************************************************************)

HashesAbove(m, splitHeight) ==
    {m[i].blockHash : i \in {j \in 1 .. Len(m) : j > splitHeight + 1}}

MainTimestamps(m) == [i \in 1 .. Len(m) |-> m[i].timestamp]

SwitchFailed == last.made /\ last.switch.attempted /\ ~last.switch.success

SwitchSucceeded == last.made /\ last.switch.attempted /\ last.switch.success

\* C2: when the validator rejects an alt block during a chain switch, the
\* main chain after handleBlock returns equals the main chain before the
\* call: same height and the same hash, timestamp, weight and cumulative
\* difficulty at every height.
C2_FailedSwitchRestoresMain ==
    SwitchFailed => main = last.mainBefore

C2_Witness ==
    /\ SwitchFailed
    /\ Len(last.switch.disconnected) >= 2
    /\ Len(last.switch.applied) >= 1

\* C3: every block admitted with addedToMainChain leaves the main chain with
\* a strictly greater cumulative difficulty than before, and its timestamp is
\* strictly greater than the median of the last 60 main-chain timestamps.
C3_AdmittedStrictlyHeavierAndLater ==
    (last.made /\ last.bvc.addedToMainChain) =>
        /\ getCumulativeDifficulty(main) > getCumulativeDifficulty(last.mainBefore)
        /\ last.timestamp > getMedianTimestamp(
               LastN(MainTimestamps(last.mainBefore), BLOCKCHAIN_TIMESTAMP_CHECK_WINDOW))

\* C4: when handleBlock stores an alt block whose cumulative difficulty
\* exceeds the main chain's, a switch is attempted; if it succeeds the result
\* is addedToMainChain and not addedToAltChain and the block is the main tip,
\* otherwise the result is addedToAltChain, the block is in the alt map and
\* the main chain is unchanged.
C4_StrongerAltBlockSwitches ==
    last.made =>
        /\ ( /\ last.bvc.addedToAltChain
             /\ last.hash \in DOMAIN altBlocks
             /\ altBlocks[last.hash].cumulativeDifficulty
                  > getCumulativeDifficulty(last.mainBefore) )
           => SwitchFailed
        /\ SwitchSucceeded =>
             /\ last.bvc.addedToMainChain
             /\ ~last.bvc.addedToAltChain
             /\ getTipHash(main) = last.hash
        /\ SwitchFailed =>
             /\ last.bvc.addedToAltChain
             /\ ~last.bvc.addedToMainChain
             /\ last.hash \in DOMAIN altBlocks
             /\ main = last.mainBefore

C4_Witness ==
    /\ SwitchSucceeded
    /\ Len(last.switch.applied) >= 2
    /\ getTipHash(main) = last.hash

\* C5: after a successful switch every main block popped above the split
\* height is in the alt map, and every alt record applied to the main chain
\* is absent from it.
C5_SwitchMovesBlocks ==
    SwitchSucceeded =>
        /\ \A h \in HashesAbove(last.mainBefore, last.switch.splitHeight) :
               h \in DOMAIN altBlocks
        /\ \A h \in HashesAbove(main, last.switch.splitHeight) :
               h \notin DOMAIN altBlocks

C5_Witness ==
    /\ SwitchSucceeded
    /\ Cardinality(HashesAbove(last.mainBefore, last.switch.splitHeight)) >= 2
    /\ Cardinality(HashesAbove(main, last.switch.splitHeight)) >= 2

\* C6: a main block disconnected by a switch and re-inserted into the alt map
\* carries the cumulative difficulty it had on the main chain.
C6_ReinsertedKeepsCumulativeDifficulty ==
    SwitchSucceeded =>
        \A i \in 1 .. Len(last.mainBefore) :
            (i > last.switch.splitHeight + 1
               /\ last.mainBefore[i].blockHash \in DOMAIN altBlocks)
            => altBlocks[last.mainBefore[i].blockHash].cumulativeDifficulty
                 = last.mainBefore[i].cumulativeDifficulty


\* The hash submitted by the step is stored (in main or in the alt map) or
\* known invalid before the step.
Stored(hash) == findBlockByHash(main, hash) >= 0 \/ hash \in DOMAIN altBlocks

KnownInvalid == last'.hash \in invalidBlocks \/ last'.prevHash \in invalidBlocks

\* The step's call returned orphaned, its hash is known invalid afterwards,
\* and the block is in neither the main chain nor the alt map.
OrphanedAndInvalid ==
    /\ last'.bvc.markedAsOrphaned
    /\ ~last'.bvc.addedToMainChain /\ ~last'.bvc.addedToAltChain
    /\ last'.hash \in invalidBlocks'
    /\ findBlockByHash(main', last'.hash) < 0
    /\ last'.hash \notin DOMAIN altBlocks'

\* C18 as stated: handleBlock on a block whose own hash or whose parent hash
\* is known invalid returns orphaned, leaves the hash known invalid and adds
\* the block to neither the main chain nor the alt map.
C18_InvalidIsOrphaned ==
    [][KnownInvalid => OrphanedAndInvalid]_vars

\* C18, amended: the same, for a block whose hash is not already in the main
\* chain or the alt map (such a block is reported as already existing, before
\* the known-invalid set is looked at).
C18_InvalidAndNotStoredIsOrphaned ==
    [][(KnownInvalid /\ ~Stored(last'.hash)) => OrphanedAndInvalid]_vars

\* A block submitted on top of a known-invalid block has been orphaned and is
\* known invalid itself.
C18_Witness ==
    /\ last.made
    /\ last.bvc.markedAsOrphaned
    /\ last.hash # last.prevHash
    /\ last.prevHash \in invalidBlocks
    /\ last.hash \in invalidBlocks

\* C19: handleBlock on a hash that is already in the main chain or in the alt
\* map returns alreadyExists and leaves the main chain, the alt map and the
\* known-invalid set as they were.
C19_DuplicateChangesNothing ==
    [][Stored(last'.hash) =>
          /\ last'.bvc.alreadyExists
          /\ ~last'.bvc.markedAsOrphaned
          /\ ~last'.bvc.addedToMainChain /\ ~last'.bvc.addedToAltChain
          /\ main' = main
          /\ altBlocks' = altBlocks
          /\ invalidBlocks' = invalidBlocks]_vars

\* A block that a chain switch moved from the main chain into the alt map has
\* been submitted again, after a submitted block got into the main chain by
\* that switch.
C19_Witness ==
    /\ last.made
    /\ last.bvc.alreadyExists
    /\ last.hash \in DOMAIN altBlocks
    /\ last.hash \notin NewHashes
    /\ \E h \in NewHashes : findBlockByHash(main, h) >= 0

\* The parent of a block: the block below it for a block that was first on
\* the main chain, the parent it was submitted with for a submitted block.
ParentOf(hash) ==
    IF hash \in NewHashes /\ hash \in DOMAIN altBlocks
    THEN altBlocks[hash].block.prevHash
    ELSE hash - 1

\* C20: for every block in the alt map, _buildAltChain from it gives the alt
\* records from the fork point to that block in parent-to-child order, and
\* the main-chain height of the fork point as the split height.
C20_BuildAltChainExact ==
    \A hash \in DOMAIN altBlocks :
        LET built == _buildAltChain(main, altBlocks, hash)
            n == Len(built.altChain)
        IN  /\ n >= 1
            /\ built.altChain[n] = hash
            /\ \A i \in 2 .. n : ParentOf(built.altChain[i]) = built.altChain[i - 1]
            /\ findBlockByHash(main, ParentOf(built.altChain[1])) >= 0
            /\ built.splitHeight = findBlockByHash(main, ParentOf(built.altChain[1]))

\* The events the step's switch passed to onReorg.
ReorgEvents == last.switch.events

MaxAltAge == CRYPTONOTE_MEMPOOL_TX_FROM_ALT_BLOCK_LIVETIME \div DIFFICULTY_TARGET_V2

\* C22: after every handleBlock call that advances the main tip (the main
\* chain is higher after the call than before it), the alt map holds no block
\* whose height is more than
\* CRYPTONOTE_MEMPOOL_TX_FROM_ALT_BLOCK_LIVETIME / DIFFICULTY_TARGET_V2
\* behind the height of the tip.
C22_PrunedAfterTipAdvance ==
    (last.made /\ height(main) > height(last.mainBefore)) =>
        \A h \in DOMAIN altBlocks :
            (height(main) - 1) - altBlocks[h].height <= MaxAltAge

(***************************************************************************)
(* Claims about the wallet storage.                                        *)
(***************************************************************************)

\* C1: once the four steps of the reorg recipe have run with
\* reorg_height = h* - 1, get_block_hash(h) is null for every h above
\* reorg_height, and no stored output or transaction has a block_height above
\* reorg_height.
C1_ReorgPostcondition ==
    reorg.pc = 5 =>
        /\ \A h \in Heights :
              h > reorg.reorgHeight => getBlockHash(blockHashes, h) = NULL
        /\ \A k \in DOMAIN outputs : ~(outputs[k].blockHeight > reorg.reorgHeight)
        /\ \A t \in DOMAIN transactions : ~(transactions[t] > reorg.reorgHeight)

\* The recipe has run on a storage that held an output, a transaction and a
\* block hash above reorg_height, and that still holds data at or below it.
C1_Witness ==
    /\ reorg.pc = 5
    /\ reorg.hadAbove
    /\ DOMAIN outputs # {}
    /\ DOMAIN blockHashes # {}

\* C7: no other task reads the storage in a state where only some of the
\* four rollback steps have been applied.
C7_RollbackAtomic ==
    reader.inRecipe => reader.stepsApplied \in {0, 4}

\* The output marked spent by the call right before the last one.
Marked == outputs[op.after.ki]

\* C14: after markOutputSpent(o, tx, h1) followed by unspendOutputsAbove(h0),
\* o is unspent with spentTxHash and spentHeight cleared when h0 < h1, and is
\* still spent with spentHeight h1 when h0 >= h1.
C14_UnspendAboveOnly ==
    ( /\ op.name = "unspendOutputsAbove"
      /\ op.after.name = "markOutputSpent"
      /\ op.after.h # NULL
      /\ op.after.ki \in DOMAIN outputs )
    => IF op.h < op.after.h
       THEN /\ ~Marked.isSpent
            /\ Marked.spentTxHash = NoTx
            /\ Marked.spentHeight = NULL
       ELSE /\ Marked.isSpent
            /\ Marked.spentHeight = op.after.h

C14_Witness ==
    /\ op.name = "unspendOutputsAbove"
    /\ op.after.name = "markOutputSpent"
    /\ op.after.ki \in DOMAIN outputs
    /\ op.after.h = 2
    /\ op.h = 1
    /\ \E k \in DOMAIN outputs : outputs[k].isSpent /\ outputs[k].spentHeight = 1

\* Output k is stored and spent now, and stored and unspent after the step.
Unspent(k) ==
    /\ k \in DOMAIN outputs /\ outputs[k].isSpent
    /\ k \in DOMAIN outputs' /\ ~outputs'[k].isSpent

\* The step is a rollback of the spends above a height below k's spentHeight.
RolledBackBelow(k) ==
    /\ op'.name = "unspendOutputsAbove"
    /\ outputs[k].spentHeight # NULL
    /\ op'.h < outputs[k].spentHeight

\* C15 as stated: a stored output that is spent is unspent after a storage
\* call only when the call is a rollback to a height below its spentHeight.
C15_SpentUntilRollback ==
    [][\A k \in KeyImages : Unspent(k) => RolledBackBelow(k)]_vars

\* C15, amended: a stored output that is spent is still stored and spent
\* after a storage call, unless the call is a rollback of the spends above a
\* height below its spentHeight, a putOutput of the same key image (which
\* replaces the record), a deleteOutputsAbove a height below its blockHeight
\* or a clear (both remove it; only a putOutput brings it back).
C15_SpentUntilRollbackOrRewrite ==
    [][\A k \in KeyImages :
         (k \in DOMAIN outputs /\ outputs[k].isSpent) =>
            \/ k \in DOMAIN outputs' /\ outputs'[k].isSpent
            \/ Unspent(k) /\ RolledBackBelow(k)
            \/ op'.name = "putOutput" /\ op'.ki = k
            \/ /\ op'.name = "deleteOutputsAbove"
               /\ op'.h < outputs[k].blockHeight
               /\ k \notin DOMAIN outputs'
            \/ op'.name = "clear" /\ k \notin DOMAIN outputs']_vars

\* A spent output survives a rollback to its own spentHeight while another is
\* rolled back.
C15_Witness ==
    /\ op.name = "unspendOutputsAbove"
    /\ \E k \in DOMAIN outputs : outputs[k].isSpent /\ outputs[k].spentHeight = op.h
    /\ \E k \in DOMAIN outputs : ~outputs[k].isSpent

\* C17: every stored output with isSpent = true has a non-null spentTxHash
\* and a non-null spentHeight.
C17_SpentHasTxAndHeight ==
    \A k \in DOMAIN outputs :
        outputs[k].isSpent =>
            outputs[k].spentTxHash # NoTx /\ outputs[k].spentHeight # NULL

\* What the scenario expects of the storage after the recipe: outputs o1 (50)
\* and o2 (100) kept, o3 (150) deleted, o1 unspent, tx_a (80) kept, tx_b (130)
\* deleted, the block hash of height 100 kept and that of 101 gone.
ScenarioExpected ==
    /\ getOutput(outputs, "o1") # {}
    /\ getOutput(outputs, "o2") # {}
    /\ getOutput(outputs, "o3") = {}
    /\ \A o \in getOutput(outputs, "o1") : ~o.isSpent
    /\ "tx_a" \in DOMAIN transactions
    /\ "tx_b" \notin DOMAIN transactions
    /\ getBlockHash(blockHashes, 100) = HashOf(100)
    /\ getBlockHash(blockHashes, 101) = NULL

\* C16 as stated: the recipe run at h* = 100 leaves the storage as the
\* scenario expects.
C16_ScenarioAtHstar100 ==
    (reorg.pc = 5 /\ reorg.reorgHeight = 100 - 1) => ScenarioExpected

\* C16, amended: the recipe run with reorg_height = 100, that is at
\* h* = 101, leaves the storage as the scenario expects.
C16_ScenarioAtReorgHeight100 ==
    (reorg.pc = 5 /\ reorg.reorgHeight = 100) => ScenarioExpected

C16_Witness ==
    /\ reorg.pc = 5
    /\ reorg.reorgHeight = 100
    /\ reorg.hadAbove
    /\ Cardinality(DOMAIN blockHashes) = 101

(***************************************************************************)
(* Claims about the transaction builder.                                   *)
(***************************************************************************)

\* C8: when transfer fails at any step, no stored wallet output has been
\* created, removed or modified by the call.
C8_FailedTransferLeavesStorage ==
    txn.pc = "failed" => outputs = txn.before

\* The transaction of the call has been built.
TxBuilt == txn.pc \in {"send", "done"}

\* C23: when the node returns fewer output indices than a selected output's
\* outputIndex requires, the output's global index stays unresolved (a
\* stored global index is the node's value for that output, never zero or
\* another value) and the output is not an input of the transaction built.
C23_UnresolvedIsDeferred ==
    /\ \A k \in DOMAIN outputs :
           outputs[k].globalIndex # NULL =>
               outputs[k].globalIndex
                   = NodeIndexes[outputs[k].txHash][outputs[k].outputIndex + 1]
    /\ TxBuilt => \A k \in txn.inputs : outputs[k].globalIndex # NULL

\* The spendable outputs of the wallet at the height the node reported.
Spendable ==
    {k \in getOutputs(outputs) : isSpendable(outputs[k], txn.currentHeight)}

\* C24: a transaction built by sweep has at most MAX_SWEEP_INPUTS inputs,
\* however many spendable outputs the wallet holds; when the wallet holds no
\* more than that, the inputs are all its spendable outputs and the one
\* output carries their total less the fee (no change).
C24_SweepWithinCap ==
    TxBuilt =>
        /\ Cardinality(txn.inputs) <= MAX_SWEEP_INPUTS
        /\ Cardinality(Spendable) <= MAX_SWEEP_INPUTS =>
               /\ txn.inputs = Spendable
               /\ txn.destAmount + txn.fee = SweepTotal(outputs, txn.inputs)

\* The call's broadcast has been answered, and the call has ended.
Answer == txn.reply

BroadcastAnswered ==
    txn.pc \in {"done", "failed"} /\ txn.reply.answered

\* C25: a call that is not a dry run returns the tx hash if and only if the
\* node's sendRawTransaction reply carries status OK: a reply with
\* success = true and another status is surfaced as a rejection, and a reply
\* with success = true and status OK never is.
C25_BroadcastDoneIffStatusOk ==
    /\ (txn.pc = "done" /\ ~txn.dryRun) =>
           txn.reply.answered /\ Answer.success /\ Answer.status = "OK"
    /\ BroadcastAnswered =>
           /\ (Answer.success /\ Answer.status = "OK") => txn.pc = "done"
           /\ (Answer.success /\ Answer.status # "OK") =>
                  txn.pc = "failed" /\ txn.error = "Transaction rejected"

(***************************************************************************)
(* Claims about the Node adapter.                                          *)
(***************************************************************************)

LastResponse == rpc.responses[Len(rpc.responses)]

\* A method has returned after at least one request.
Answered == rpc.pc = "returned" /\ Len(rpc.responses) > 0

\* C10 as stated: a response that is an error body is retried like a network
\* error, so a call that has an attempt left after an error body does not
\* return on it.
C10_RpcErrorRetried ==
    (Answered /\ rpc.method = "call" /\ LastResponse.kind = "rpc_error")
        => Len(rpc.responses) = rpc.attempts

\* C10, amended: an error body is never retried: the call returns on the
\* first one, as a failure with the node's error code (INTERNAL_ERROR when
\* the code is 0), whatever attempts are left.  The responses that are
\* retried are the thrown ones (transport failure, timeout, HTTP error other
\* than 401, unparsable body) and BUSY: a call returns on one of those only
\* when it was its last attempt.
C10_RpcErrorSurfacesAtOnce ==
    (rpc.pc # "idle" /\ rpc.method = "call") =>
        /\ \A i \in 1 .. Len(rpc.responses) :
               rpc.responses[i].kind = "rpc_error" =>
                   /\ i = Len(rpc.responses)
                   /\ rpc.pc = "returned"
                   /\ ~rpc.result.success
                   /\ rpc.result.error.code =
                          (IF rpc.responses[i].code # 0 THEN rpc.responses[i].code
                           ELSE RPC_ERROR_CODES.INTERNAL_ERROR)
        /\ (Answered /\ LastResponse.kind \in Thrown \cup {"busy"})
               => Len(rpc.responses) = rpc.attempts
        /\ Len(rpc.responses) <= rpc.attempts \/ Len(rpc.responses) = 0

C10_Witness ==
    /\ Answered
    /\ rpc.method = "call"
    /\ LastResponse.kind = "rpc_error"
    /\ Len(rpc.responses) = 2
    /\ rpc.attempts = 3

\* Every request of the method so far failed with a transport error or a
\* timeout.
KeepsFailing ==
    \A i \in 1 .. Len(rpc.responses) :
        rpc.responses[i].kind \in {"network_error", "timeout"}

\* C11: on a client made with default options, a call that keeps failing with
\* a transport error or a timeout returns its failure after 3 attempts, having
\* waited 1 s between consecutive attempts (2 s in all).
C11_DefaultRetriesTwice ==
    (Answered /\ rpc.defaults /\ KeepsFailing) =>
        /\ Len(rpc.responses) = 3
        /\ rpc.waited = 2 * 1000

\* C12: whatever call, post or get returns is success = true with a result, or
\* success = false with a non-null error, for every response of the node and
\* every retries the client was made with.
C12_UniformShape ==
    rpc.pc = "returned" =>
        IF rpc.result.success
        THEN rpc.result.result # "undefined"
        ELSE ~rpc.result.error.isNull

BASE58_FULL_BLOCK_SIZE == 8

BASE58_FULL_ENCODED_BLOCK_SIZE == 11

BASE58_ENCODED_BLOCK_SIZES == <<0, 2, 3, 5, 6, 7, 9, 10, 11>>

BadChar == 58

\* What a function returns for "null", and for a byte array.
Null == [isNull |-> TRUE]

Bytes(b) == [isNull |-> FALSE, bytes |-> b]

\* DECODED_BLOCK_SIZES: encoded block length -> decoded length; -1 stands for
\* the undefined of a length that is not in the table.
DECODED_BLOCK_SIZES(len) ==
    IF \E i \in 1 .. Len(BASE58_ENCODED_BLOCK_SIZES) : BASE58_ENCODED_BLOCK_SIZES[i] = len
    THEN (CHOOSE i \in 1 .. Len(BASE58_ENCODED_BLOCK_SIZES) :
              BASE58_ENCODED_BLOCK_SIZES[i] = len) - 1
    ELSE -1

\* num = num * 58 + digit on the limbs, from limb i on with the carry given.
RECURSIVE MulAdd(_, _, _)
MulAdd(num, carry, i) ==
    IF i > Len(num) THEN num
    ELSE LET t == num[i] * 58 + carry
         IN  MulAdd([num EXCEPT ![i] = t % 256], t \div 256, i + 1)

\* The loop of decodeBlock over the characters of a block.
RECURSIVE BlockNum(_, _, _)
BlockNum(block, i, num) ==
    IF i > Len(block) THEN num
    ELSE BlockNum(block, i + 1, MulAdd(num, block[i], 1))

\* uint64ToUint8BE: the low size bytes of num, most significant first.
uint64ToUint8BE(num, size) == [i \in 1 .. size |-> num[size + 1 - i]]

decodeBlock(block) ==
    LET decodedSize == DECODED_BLOCK_SIZES(Len(block))
        num == BlockNum(block, 1, [i \in 1 .. 9 |-> 0])
    IN  IF decodedSize < 0 THEN Null
        ELSE IF decodedSize = 0 THEN Bytes(<<>>)
        ELSE IF \E i \in 1 .. Len(block) : block[i] = BadChar THEN Null
        ELSE IF /\ decodedSize < BASE58_FULL_BLOCK_SIZE
                /\ \E i \in (decodedSize + 1) .. 9 : num[i] # 0
             THEN Null
        ELSE Bytes(uint64ToUint8BE(num, decodedSize))

\* The loop of decode over the full blocks, from block i on.
RECURSIVE DecodeFullBlocks(_, _, _)
DecodeFullBlocks(encoded, i, fullBlockCount) ==
    IF i >= fullBlockCount THEN Bytes(<<>>)
    ELSE LET decoded == decodeBlock(SubSeq(encoded,
                            i * BASE58_FULL_ENCODED_BLOCK_SIZE + 1,
                            (i + 1) * BASE58_FULL_ENCODED_BLOCK_SIZE))
             rest == DecodeFullBlocks(encoded, i + 1, fullBlockCount)
         IN  IF decoded.isNull \/ rest.isNull THEN Null
             ELSE Bytes(decoded.bytes \o rest.bytes)

decode(encoded) ==
    LET fullBlockCount == Len(encoded) \div BASE58_FULL_ENCODED_BLOCK_SIZE
        lastBlockSize == Len(encoded) % BASE58_FULL_ENCODED_BLOCK_SIZE
        lastBlockDecodedSize == DECODED_BLOCK_SIZES(lastBlockSize)
        full == DecodeFullBlocks(encoded, 0, fullBlockCount)
        lastBlock == decodeBlock(SubSeq(encoded,
                         fullBlockCount * BASE58_FULL_ENCODED_BLOCK_SIZE + 1,
                         Len(encoded)))
    IN  IF Len(encoded) = 0 THEN Bytes(<<>>)
        ELSE IF lastBlockDecodedSize < 0 THEN Null
        ELSE IF full.isNull THEN Null
        ELSE IF lastBlockSize > 0
             THEN IF lastBlock.isNull THEN Null
                  ELSE Bytes(full.bytes \o lastBlock.bytes)
        ELSE full

\* num = num \div 58 on big-endian bytes, from byte i on with the remainder
\* given: the pair of the quotient and the remainder.
RECURSIVE DivMod58(_, _, _)
DivMod58(bytes, rem, i) ==
    IF i > Len(bytes) THEN <<bytes, rem>>
    ELSE LET cur == rem * 256 + bytes[i]
         IN  DivMod58([bytes EXCEPT ![i] = cur \div 58], cur % 58, i + 1)

\* The loop of encodeBlock: the last n characters of the block, the digits of
\* num from the least significant; a num of zero leaves the fill of '1'.
RECURSIVE BlockDigits(_, _)
BlockDigits(bytes, n) ==
    IF n = 0 THEN <<>>
    ELSE LET qr == DivMod58(bytes, 0, 1)
         IN  Append(BlockDigits(qr[1], n - 1), qr[2])

encodeBlock(block) == BlockDigits(block, BASE58_ENCODED_BLOCK_SIZES[Len(block) + 1])

RECURSIVE encode(_)
encode(data) ==
    IF Len(data) = 0 THEN <<>>
    ELSE IF Len(data) <= BASE58_FULL_BLOCK_SIZE THEN encodeBlock(data)
    ELSE encodeBlock(SubSeq(data, 1, BASE58_FULL_BLOCK_SIZE))
             \o encode(SubSeq(data, BASE58_FULL_BLOCK_SIZE + 1, Len(data)))

(***************************************************************************)
(* Message signatures (part_006): verifySignature and parseSignature.  A   *)
(* signature is its header, the first five characters, and its body, the   *)
(* base58 string after them.  What parseAddress makes of the address and   *)
(* what checkSignature answers for the spend key and for the view key are  *)
(* inputs.  A call either returns a value or throws.                       *)
(***************************************************************************)

Returned(v) == [thrown |-> FALSE, value |-> v]

Throws(e) == [thrown |-> TRUE, error |-> e]

SigHeaders == {"SigV1", "SigV2", "SigV3"}

\* An encoded full block, and one with a character outside the alphabet.
FullBlock == encodeBlock(<<1, 2, 3, 4, 5, 6, 7, 8>>)

BadBlock == [FullBlock EXCEPT ![4] = BadChar]

RECURSIVE Blocks(_)
Blocks(n) == IF n = 0 THEN <<>> ELSE FullBlock \o Blocks(n - 1)

\* The ends of the bodies: nothing, a length outside the size table, one
\* byte, a character outside the alphabet, an overflowing block, two bytes,
\* and two more lengths outside the table.
SigTails ==
    {<<>>, <<1>>, <<1, 1>>, <<BadChar, 1>>, <<57, 57>>, <<1, 1, 1>>,
     <<1, 1, 1, 1>>, <<1, 1, 1, 1, 1, 1, 1, 1>>}

MaxSigBlocks == 9

SigBodies ==
    {Blocks(n) \o tail : n \in {0, 1, 7, 8, MaxSigBlocks}, tail \in SigTails}
        \cup {Blocks(7) \o BadBlock \o <<1, 1>>}

\* part_006 298-359.  decode returns null and never throws, so the catch of
\* 312-316 is never entered and line 318 reads the length of null.
verifySignature(signature, addrInfo, spendOk, viewOk) ==
    LET isV1 == signature.header = "SigV1"
        isV2 == signature.header = "SigV2"
        version == IF isV1 THEN 1 ELSE 2
        sigBytes == decode(signature.body)
    IN  IF ~isV1 /\ ~isV2
        THEN Returned([valid |-> FALSE, version |-> 0, keyType |-> "null"])
        ELSE IF sigBytes.isNull THEN Throws("TypeError")
        ELSE IF Len(sigBytes.bytes) # 65
             THEN Returned([valid |-> FALSE, version |-> version, keyType |-> "null"])
        ELSE IF ~addrInfo.valid
             THEN Returned([valid |-> FALSE, version |-> version, keyType |-> "null"])
        ELSE IF spendOk
             THEN Returned([valid |-> TRUE, version |-> version, keyType |-> "spend"])
        ELSE IF viewOk
             THEN Returned([valid |-> TRUE, version |-> version, keyType |-> "view"])
        ELSE Returned([valid |-> FALSE, version |-> version, keyType |-> "null"])

\* part_006 367-393: here the length is read inside the try.
parseSignature(signature) ==
    LET isV1 == signature.header = "SigV1"
        isV2 == signature.header = "SigV2"
        sigBytes == decode(signature.body)
    IN  IF ~isV1 /\ ~isV2 THEN Returned([valid |-> FALSE])
        ELSE IF sigBytes.isNull THEN Returned([valid |-> FALSE])
        ELSE IF Len(sigBytes.bytes) # 65 THEN Returned([valid |-> FALSE])
        ELSE Returned([valid |-> TRUE,
                       version |-> IF isV1 THEN 1 ELSE 2,
                       c |-> SubSeq(sigBytes.bytes, 1, 32),
                       r |-> SubSeq(sigBytes.bytes, 33, 64),
                       signMask |-> sigBytes.bytes[65]])

libFrame == <<outputs, transactions, blockHashes, reorg, reader,
              main, altBlocks, invalidBlocks, last, txn, rpc, op, toolVars>>

\* A library function is called when no call is recorded; LibClear is the
\* caller taking the outcome.
VerifySignatureCall(signature, addrInfo, spendOk, viewOk) ==
    /\ lib = NoLib
    /\ lib' = [name |-> "verifySignature",
               signature |-> signature,
               result |-> verifySignature(signature, addrInfo, spendOk, viewOk)]
    /\ UNCHANGED libFrame

ParseSignatureCall(signature) ==
    /\ lib = NoLib
    /\ lib' = [name |-> "parseSignature",
               signature |-> signature,
               result |-> parseSignature(signature)]
    /\ UNCHANGED libFrame

LibClear ==
    /\ lib # NoLib
    /\ lib' = NoLib
    /\ UNCHANGED libFrame

InitLib ==
    /\ outputs = EmptyMap
    /\ transactions = EmptyMap
    /\ blockHashes = EmptyMap
    /\ reorg = Idle
    /\ reader = NoRead
    /\ main = <<>>
    /\ altBlocks = EmptyMap
    /\ invalidBlocks = {}
    /\ last = NoCall
    /\ txn = NoTransfer
    /\ rpc = NoRequest
    /\ op = NoOp
    /\ lib = NoLib
    /\ node = NewNode
    /\ provider = ProviderLoaded
    /\ worker = WorkerReady

NextSig ==
    \/ \E header \in SigHeaders, body \in SigBodies,
          valid, spendOk, viewOk \in BOOLEAN :
           VerifySignatureCall([header |-> header, body |-> body],
                               [valid |-> valid], spendOk, viewOk)
    \/ \E header \in SigHeaders, body \in SigBodies :
           ParseSignatureCall([header |-> header, body |-> body])
    \/ LibClear

SpecSig == InitLib /\ [][NextSig]_vars

\* C26 as stated: verify answers a signature with a SigV1 or SigV2 header
\* whose body is not valid base58, or does not decode to 65 bytes, with
\* valid = false, and does not throw.
C26_BadBodyIsInvalid ==
    (/\ lib.name = "verifySignature"
     /\ lib.signature.header \in {"SigV1", "SigV2"}
     /\ LET sigBytes == decode(lib.signature.body)
        IN  sigBytes.isNull \/ Len(sigBytes.bytes) # 65)
        => /\ ~lib.result.thrown
           /\ ~lib.result.value.valid


(***************************************************************************)
(* Address codec (base58.js, constants.js): encodeAddress, decodeAddress   *)
(* and the prefix table.  A tag is the sequence of its base-128 digits,    *)
(* least significant first and without leading zero digits, so that equal  *)
(* BigInts are equal sequences (the testnet and stagenet tags exceed 31    *)
(* bits).  Checksum4 stands for the first four bytes of keccak256: a       *)
(* function of every byte of the payload and of its length.                *)
(***************************************************************************)

PREFIXES ==
    {
     [prefix |-> <<24, 102, 123, 1>>, network |-> "mainnet", format |-> "legacy", type |-> "standard"],
     [prefix |-> <<24, 102, 123, 42>>, network |-> "mainnet", format |-> "legacy", type |-> "integrated"],
     [prefix |-> <<24, 102, 123, 122>>, network |-> "mainnet", format |-> "legacy", type |-> "subaddress"],
     [prefix |-> <<22, 25, 96>>, network |-> "mainnet", format |-> "carrot", type |-> "standard"],
     [prefix |-> <<22, 25, 51, 1>>, network |-> "mainnet", format |-> "carrot", type |-> "integrated"],
     [prefix |-> <<22, 25, 69, 1>>, network |-> "mainnet", format |-> "carrot", type |-> "subaddress"],
     [prefix |-> <<24, 102, 122, 45, 1>>, network |-> "testnet", format |-> "legacy", type |-> "standard"],
     [prefix |-> <<24, 102, 122, 42, 80, 1>>, network |-> "testnet", format |-> "legacy", type |-> "integrated"],
     [prefix |-> <<24, 102, 122, 44, 10>>, network |-> "testnet", format |-> "legacy", type |-> "subaddress"],
     [prefix |-> <<22, 25, 21, 1>>, network |-> "testnet", format |-> "carrot", type |-> "standard"],
     [prefix |-> <<22, 25, 20, 86, 1>>, network |-> "testnet", format |-> "carrot", type |-> "integrated"],
     [prefix |-> <<22, 25, 21, 30>>, network |-> "testnet", format |-> "carrot", type |-> "subaddress"],
     [prefix |-> <<24, 102, 122, 36, 1>>, network |-> "stagenet", format |-> "legacy", type |-> "standard"],
     [prefix |-> <<24, 102, 122, 33, 115, 1>>, network |-> "stagenet", format |-> "legacy", type |-> "integrated"],
     [prefix |-> <<24, 102, 122, 35, 45>>, network |-> "stagenet", format |-> "legacy", type |-> "subaddress"],
     [prefix |-> <<22, 25, 19, 1>>, network |-> "stagenet", format |-> "carrot", type |-> "standard"],
     [prefix |-> <<22, 25, 18, 84, 1>>, network |-> "stagenet", format |-> "carrot", type |-> "integrated"],
     [prefix |-> <<22, 25, 19, 28>>, network |-> "stagenet", format |-> "carrot", type |-> "subaddress"]
    }

\* PREFIX_MAP.get(prefix) || null
getPrefixInfo(prefix) ==
    IF \E p \in PREFIXES : p.prefix = prefix
    THEN [isNull |-> FALSE, info |-> CHOOSE p \in PREFIXES : p.prefix = prefix]
    ELSE Null

ChecksumModulus == 65521

\* The sum of the bytes lo .. hi, each times its position when weighted, by
\* halves.
RECURSIVE ChecksumSum(_, _, _, _)
ChecksumSum(payload, lo, hi, weighted) ==
    IF lo > hi THEN 0
    ELSE IF lo = hi THEN ((IF weighted THEN lo ELSE 1) * payload[lo]) % ChecksumModulus
    ELSE (ChecksumSum(payload, lo, (lo + hi) \div 2, weighted)
              + ChecksumSum(payload, (lo + hi) \div 2 + 1, hi, weighted))
             % ChecksumModulus

Checksum4(payload) ==
    LET a == (1 + Len(payload) + ChecksumSum(payload, 1, Len(payload), FALSE))
                 % ChecksumModulus
        b == ChecksumSum(payload, 1, Len(payload), TRUE)
    IN  <<a \div 256, a % 256, b \div 256, b % 256>>

\* encodeVarint: every digit but the last carries the continuation bit.
encodeVarint(value) ==
    [i \in 1 .. Len(value) |-> IF i < Len(value) THEN value[i] + 128 ELSE value[i]]

\* A BigInt from base-128 digits: leading zero digits do not count.
RECURSIVE BigIntOf(_)
BigIntOf(digits) ==
    IF Len(digits) > 1 /\ digits[Len(digits)] = 0
    THEN BigIntOf(SubSeq(digits, 1, Len(digits) - 1))
    ELSE digits

\* decodeVarint: the bytes up to the first one without the continuation bit,
\* at most ten of them.
decodeVarint(data) ==
    LET ends == {i \in 1 .. Len(data) : i <= 10 /\ data[i] < 128}
        bytesRead == CHOOSE i \in ends : \A j \in ends : i <= j
    IN  IF ends = {} THEN Null
        ELSE [isNull |-> FALSE,
              value |-> BigIntOf([i \in 1 .. bytesRead |-> data[i] % 128]),
              bytesRead |-> bytesRead]

encodeAddress(tag, data) ==
    LET combined == encodeVarint(tag) \o data
    IN  encode(combined \o Checksum4(combined))

decodeAddress(address) ==
    LET decoded == decode(address)
        checksum == SubSeq(decoded.bytes, Len(decoded.bytes) - 3, Len(decoded.bytes))
        payload == SubSeq(decoded.bytes, 1, Len(decoded.bytes) - 4)
        varintResult == decodeVarint(payload)
    IN  IF decoded.isNull THEN Null
        ELSE IF Len(decoded.bytes) <= 4 THEN Null
        ELSE IF checksum # Checksum4(payload) THEN Null
        ELSE IF varintResult.isNull THEN Null
        ELSE [isNull |-> FALSE,
              tag |-> varintResult.value,
              data |-> SubSeq(payload, varintResult.bytesRead + 1, Len(payload))]

\* The addresses decoded: those encodeAddress makes of a tag, in the table or
\* not, and 64 bytes of keys, as they are or with one character changed,
\* replaced by one outside the alphabet, dropped or added; and payloads too
\* short or without the end of a varint, under a right checksum.
UnknownTags == {<<1>>, <<24, 102, 123, 2>>}

AddrData == {[i \in 1 .. 64 |-> (7 * i) % 256], [i \in 1 .. 64 |-> 255 - i]}

Mutations == {"none", "char", "badchar", "drop", "add"}

Mutate(address, kind, p) ==
    CASE kind = "none" -> address
      [] kind = "char" -> [address EXCEPT ![p] = (address[p] + 1) % 58]
      [] kind = "badchar" -> [address EXCEPT ![p] = BadChar]
      [] kind = "drop" -> SubSeq(address, 1, Len(address) - 1)
      [] kind = "add" -> Append(address, 0)

MutatedAt(address) == {1, 50, Len(address)}

RawPayloads == {<<>>, <<18>>, <<129, 130, 131>>, <<18, 1, 2, 3>>}

DecodeAddressCall(address) ==
    /\ lib = NoLib
    /\ lib' = [name |-> "decodeAddress",
               address |-> address,
               result |-> decodeAddress(address)]
    /\ UNCHANGED libFrame

NextAddr ==
    \/ \E tag \in {p.prefix : p \in PREFIXES} \cup UnknownTags,
          data \in AddrData, kind \in Mutations :
           LET address == encodeAddress(tag, data)
           IN  \E p \in MutatedAt(address) :
                   DecodeAddressCall(Mutate(address, kind, p))
    \/ \E payload \in RawPayloads :
           DecodeAddressCall(encode(payload \o Checksum4(payload)))
    \/ LibClear

SpecAddr == InitLib /\ [][NextAddr]_vars

\* C27 as stated: address decode returns a decoded address only for an input
\* whose characters and block lengths are valid base58, whose checksum
\* matches and whose tag is one of the 18 known address tags; for every
\* other input it returns failure.
C27_DecodedOnlyIfWellFormedAndKnown ==
    (lib.name = "decodeAddress" /\ ~lib.result.isNull) =>
        LET decoded == decode(lib.address)
            n == Len(decoded.bytes)
        IN  /\ ~decoded.isNull
            /\ SubSeq(decoded.bytes, n - 3, n) = Checksum4(SubSeq(decoded.bytes, 1, n - 4))
            /\ ~getPrefixInfo(lib.result.tag).isNull


(***************************************************************************)
(* Mnemonic seeds (mnemonic.js).  A string is the sequence of its UTF-16   *)
(* code units.  A 32-bit unsigned number that may exceed the range of the  *)
(* model's integers is a pair <<hi, lo>> of 16-bit halves.  The word       *)
(* lists are not spelled out: a language here has 1626 different           *)
(* lower-case words, different in their first prefixLength letters, word   *)
(* idx being the letters of idx in base 26 and one more.                   *)
(***************************************************************************)

WORD_LIST_SIZE == 1626

Space == 32

IsSpace(c) == c \in {9, 10, 13, Space}

\* String.prototype.toLowerCase and toUpperCase on the letters of the lists:
\* Latin a-z and Cyrillic U+0430 .. U+044F.
toLowerCaseSkipped(str) == str

toLowerCase(str) ==
    [i \in 1 .. Len(str) |->
        IF str[i] \in 65 .. 90 \/ str[i] \in 1040 .. 1071 THEN str[i] + 32 ELSE str[i]]

toUpperCase(str) ==
    [i \in 1 .. Len(str) |->
        IF str[i] \in 97 .. 122 \/ str[i] \in 1072 .. 1103 THEN str[i] - 32 ELSE str[i]]

\* str.trim().split(/\s+/): the maximal runs without white space; of a string
\* of white space only, the one empty string.
SplitWords(str) ==
    LET starts == {i \in 1 .. Len(str) :
                     ~IsSpace(str[i]) /\ (i = 1 \/ IsSpace(str[i - 1]))}
        ends == {i \in 1 .. Len(str) :
                   ~IsSpace(str[i]) /\ (i = Len(str) \/ IsSpace(str[i + 1]))}
        nth(S, k) == CHOOSE i \in S : Cardinality({j \in S : j < i}) = k - 1
    IN  IF starts = {} THEN <<<<>>>>
        ELSE [k \in 1 .. Cardinality(starts) |->
                 SubSeq(str, nth(starts, k), nth(ends, k))]

\* words.slice(lo - 1, hi).join(sep), by halves.
RECURSIVE JoinWords(_, _, _, _)
JoinWords(words, lo, hi, sep) ==
    IF lo > hi THEN <<>>
    ELSE IF lo = hi THEN words[lo]
    ELSE JoinWords(words, lo, (lo + hi) \div 2, sep) \o sep
             \o JoinWords(words, (lo + hi) \div 2 + 1, hi, sep)

\* w.slice(0, prefixLength)
Prefix(word, prefixLength) ==
    SubSeq(word, 1, IF Len(word) < prefixLength THEN Len(word) ELSE prefixLength)

RECURSIVE Xor16(_, _)
Xor16(a, b) ==
    IF a = 0 THEN b
    ELSE IF b = 0 THEN a
    ELSE ((a + b) % 2) + 2 * Xor16(a \div 2, b \div 2)

\* One turn of the inner loop of crc32: (crc >>> 1) ^ (crc & 1 ? 0xEDB88320 : 0)
CrcShift(crc) ==
    LET hi == crc[1] \div 2
        lo == (crc[2] \div 2) + 32768 * (crc[1] % 2)
    IN  IF crc[2] % 2 = 1 THEN <<Xor16(hi, 60856), Xor16(lo, 33568)>>
        ELSE <<hi, lo>>

CrcChar(crc, code) ==
    CrcShift(CrcShift(CrcShift(CrcShift(CrcShift(CrcShift(CrcShift(CrcShift(
        <<crc[1], Xor16(crc[2], code)>>))))))))

\* The outer loop of crc32 over the characters lo .. hi, by halves.
RECURSIVE CrcLoop(_, _, _, _)
CrcLoop(str, lo, hi, crc) ==
    IF lo > hi THEN crc
    ELSE IF lo = hi THEN CrcChar(crc, str[lo])
    ELSE LET mid == (lo + hi) \div 2
             left == CrcLoop(str, lo, mid, crc)
         IN  IF left[1] >= 0 THEN CrcLoop(str, mid + 1, hi, left) ELSE left

crc32(str) ==
    LET crc == CrcLoop(str, 1, Len(str), <<65535, 65535>>)
    IN  <<65535 - crc[1], 65535 - crc[2]>>

\* crc32(checksumData) % 24, with 65536 % 24 = 16
ChecksumIndex(words, prefixLength) ==
    LET crc == crc32(JoinWords([k \in 1 .. 24 |-> Prefix(words[k], prefixLength)],
                               1, 24, <<>>))
    IN  ((crc[1] % 24) * 16 + crc[2]) % 24

Languages ==
    {[name |-> "english", prefixLength |-> 3, base |-> 97],
     [name |-> "spanish", prefixLength |-> 4, base |-> 97],
     [name |-> "russian", prefixLength |-> 4, base |-> 1072]}

getLanguage(name) == CHOOSE l \in Languages : l.name = name

RECURSIVE Pow26(_)
Pow26(k) == IF k = 0 THEN 1 ELSE 26 * Pow26(k - 1)

\* wordList[idx]
WordAt(language, idx) ==
    [k \in 1 .. (language.prefixLength + 1) |->
        IF k > language.prefixLength THEN language.base + 18
        ELSE language.base + ((idx \div Pow26(language.prefixLength - k)) % 26)]

RECURSIVE LettersValue(_, _, _)
LettersValue(word, base, n) ==
    IF n = 0 THEN 0 ELSE 26 * LettersValue(word, base, n - 1) + (word[n] - base)

\* wordList.indexOf(word): the place the letters of the word name, when the
\* word at that place is this word.
indexOf(language, word) ==
    LET idx == LettersValue(word, language.base, language.prefixLength)
    IN  IF /\ Len(word) = language.prefixLength + 1
           /\ \A k \in 1 .. Len(word) : word[k] - language.base \in 0 .. 25
           /\ idx < WORD_LIST_SIZE
           /\ WordAt(language, idx) = word
        THEN idx
        ELSE -1

\* val / d and val % d of the unsigned 32-bit val of four little-endian bytes,
\* from the most significant byte down.
RECURSIVE DivMod(_, _, _, _, _)
DivMod(bytes, d, i, q, rem) ==
    IF i = 0 THEN <<q, rem>>
    ELSE LET cur == rem * 256 + bytes[i]
         IN  DivMod(bytes, d, i - 1, q * 256 + (cur \div d), cur % d)

\* mnemonic.js 165-201, for the language named
seedToMnemonic(seed, languageName) ==
    LET language == getLanguage(languageName)
        N == WORD_LIST_SIZE
        group(i) == DivMod(SubSeq(seed, 4 * i + 1, 4 * i + 4), N, 4, 0, 0)
        w1(i) == group(i)[2]
        w2(i) == (group(i)[1] + w1(i)) % N
        w3(i) == ((group(i)[1] \div N) + w2(i)) % N
        words == [k \in 1 .. 24 |->
                    LET i == (k - 1) \div 3
                    IN  WordAt(language,
                               CASE (k - 1) % 3 = 0 -> w1(i)
                                 [] (k - 1) % 3 = 1 -> w2(i)
                                 [] OTHER -> w3(i))]
        checksumIndex == ChecksumIndex(words, language.prefixLength)
    IN  IF Len(seed) # 32 THEN Throws("Seed must be 32 bytes")
        ELSE Returned(JoinWords(Append(words, words[checksumIndex + 1]), 1, 25, <<Space>>))

\* The four bytes of val = w1 + N * a + N * N * b: with N * N = 40 * 65536 +
\* 22436 the low and the high half of val, the high one wrapping as >> does.
GroupBytes(w1, a, b) ==
    LET low == w1 + WORD_LIST_SIZE * a + 22436 * b
        lo == low % 65536
        hi == (40 * b + (low \div 65536)) % 65536
    IN  <<lo % 256, lo \div 256, hi % 256, hi \div 256>>

\* val % N of the same val, with 65536 % N = 496
GroupModN(w1, a, b) ==
    LET low == w1 + WORD_LIST_SIZE * a + 22436 * b
        high == 40 * b + (low \div 65536)
    IN  ((high % WORD_LIST_SIZE) * 496 + (low % 65536)) % WORD_LIST_SIZE

RECURSIVE SeedBytes(_, _)
SeedBytes(indices, n) ==
    IF n = 0 THEN <<>>
    ELSE LET N == WORD_LIST_SIZE
             w1 == indices[3 * n - 2]
             w2 == indices[3 * n - 1]
             w3 == indices[3 * n]
         IN  SeedBytes(indices, n - 1)
                 \o GroupBytes(w1, ((N - w1) + w2) % N, ((N - w2) + w3) % N)

\* mnemonic.js 110-119: the 25th word has the prefix of the word at the
\* checksum index.
ChecksumMatchesAlways(words, prefixLength) == TRUE

ChecksumMatches(words, prefixLength) ==
    Prefix(words[ChecksumIndex(words, prefixLength) + 1], prefixLength)
        = Prefix(words[25], prefixLength)

\* mnemonic.js 83-157, for the language named
mnemonicToSeed(mnemonic, languageName) ==
    LET words == SplitWords(toLowerCase(mnemonic))
        language == getLanguage(languageName)
        N == WORD_LIST_SIZE
        indices == [k \in 1 .. Len(words) |-> indexOf(language, words[k])]
    IN  IF Len(words) # 25
        THEN [valid |-> FALSE, seed |-> <<>>, error |-> "Expected 25 words"]
        ELSE IF \E k \in 1 .. 25 : indices[k] = -1
        THEN [valid |-> FALSE, seed |-> <<>>, error |-> "Unknown word"]
        ELSE IF ~ChecksumMatches(words, language.prefixLength)
        THEN [valid |-> FALSE, seed |-> <<>>, error |-> "Checksum mismatch"]
        ELSE IF \E i \in 1 .. 8 :
                    LET w1 == indices[3 * i - 2]
                        w2 == indices[3 * i - 1]
                        w3 == indices[3 * i]
                    IN  GroupModN(w1, ((N - w1) + w2) % N, ((N - w2) + w3) % N) # w1
        THEN [valid |-> FALSE, seed |-> <<>>, error |-> "Invalid word encoding"]
        ELSE [valid |-> TRUE, seed |-> SeedBytes(indices, 8), error |-> "null"]


\* The seeds: eight times the same group of four bytes, for the values 0,
\* N - 1, N, N * N - 1, N * N, 2^31 - 1, 2^31 and 2^32 - 1 of the group; all
\* of these groups in one seed; the seed of the tests; and one of 31 bytes.
GroupValues ==
    <<<<0, 0, 0, 0>>, <<89, 6, 0, 0>>, <<90, 6, 0, 0>>, <<195, 87, 40, 0>>,
      <<196, 87, 40, 0>>, <<255, 255, 255, 127>>, <<0, 0, 0, 128>>,
      <<255, 255, 255, 255>>>>

TEST_SEED ==
    <<139, 101, 89, 112, 21, 55, 153, 175, 42, 234, 220, 159, 241, 173, 208, 234,
      108, 114, 81, 213, 65, 84, 207, 169, 44, 23, 58, 13, 211, 156, 31, 148>>

Seeds ==
    {[i \in 1 .. 32 |-> GroupValues[g][((i - 1) % 4) + 1]] : g \in 1 .. 8}
        \cup {[i \in 1 .. 32 |-> GroupValues[((i - 1) \div 4) + 1][((i - 1) % 4) + 1]]}
        \cup {TEST_SEED, SubSeq(TEST_SEED, 1, 31)}

\* What is done to a mnemonic between seedToMnemonic and mnemonicToSeed:
\* nothing, upper case, more white space, both; or a change of its words.
Faithful == {"none", "upper", "spaces", "upperSpaces"}

Altered == {"swap", "lastNext", "lastFirst", "lastUnknown", "data", "drop"}

Spaced(words) == <<Space, Space>> \o JoinWords(words, 1, Len(words), <<Space, Space, Space>>)
                     \o <<Space, Space>>

EditMnemonic(mnemonic, language, edit) ==
    LET words == SplitWords(mnemonic)
        checksumIndex == ChecksumIndex(words, language.prefixLength)
        join(ws) == JoinWords(ws, 1, Len(ws), <<Space>>)
    IN  CASE edit = "none" -> mnemonic
          [] edit = "upper" -> toUpperCase(mnemonic)
          [] edit = "spaces" -> Spaced(words)
          [] edit = "upperSpaces" -> toUpperCase(Spaced(words))
          [] edit = "swap" -> join([words EXCEPT ![1] = words[2], ![2] = words[1]])
          [] edit = "lastNext" ->
                 join([words EXCEPT ![25] = words[((checksumIndex + 1) % 24) + 1]])
          [] edit = "lastFirst" -> join([words EXCEPT ![25] = WordAt(language, 0)])
          [] edit = "lastUnknown" ->
                 join([words EXCEPT ![25] = [words[25] EXCEPT
                          ![language.prefixLength + 1] = language.base + 25]])
          [] edit = "data" ->
                 join([words EXCEPT ![5] = WordAt(language, (indexOf(language, words[5]) + 1)
                                                               % WORD_LIST_SIZE)])
          [] edit = "drop" -> join(SubSeq(words, 1, 24))

SeedToMnemonicCall(seed, languageName) ==
    /\ lib = NoLib
    /\ lib' = [name |-> "seedToMnemonic",
               seed |-> seed,
               language |-> languageName,
               result |-> seedToMnemonic(seed, languageName)]
    /\ UNCHANGED libFrame

\* mnemonicToSeed of the mnemonic seedToMnemonic returned, edited.
MnemonicToSeedCall(edit) ==
    /\ lib.name = "seedToMnemonic"
    /\ ~lib.result.thrown
    /\ LET mnemonic == EditMnemonic(lib.result.value, getLanguage(lib.language), edit)
       IN  lib' = [name |-> "mnemonicToSeed",
                   seed |-> lib.seed,
                   language |-> lib.language,
                   edit |-> edit,
                   mnemonic |-> mnemonic,
                   result |-> mnemonicToSeed(mnemonic, lib.language)]
    /\ UNCHANGED libFrame

NextMnemonic ==
    \/ \E seed \in Seeds, language \in Languages :
           SeedToMnemonicCall(seed, language.name)
    \/ \E edit \in Faithful \cup Altered : MnemonicToSeedCall(edit)
    \/ LibClear

SpecMnemonic == InitLib /\ [][NextMnemonic]_vars

\* The words mnemonicToSeed makes of the mnemonic of the last call.
LastWords == SplitWords(toLowerCase(lib.mnemonic))

\* C28: mnemonic_to_seed never answers valid = true for a mnemonic of 25
\* words whose 25th word is not the checksum word its first 24 words
\* determine, the word at index CRC32(prefixes) mod 24.
C28_BadChecksumRejected ==
    (/\ lib.name = "mnemonicToSeed"
     /\ Len(LastWords) = 25
     /\ LastWords[25] #
            LastWords[ChecksumIndex(LastWords, getLanguage(lib.language).prefixLength) + 1])
        => ~lib.result.valid

C28_Witness ==
    /\ lib.name = "mnemonicToSeed"
    /\ lib.edit = "lastNext"
    /\ lib.seed = TEST_SEED
    /\ \A k \in 1 .. 25 : indexOf(getLanguage(lib.language), LastWords[k]) # -1
    /\ ~lib.result.valid
    /\ lib.result.error = "Checksum mismatch"

TESTNET_HARDFORKS ==
    <<[version |-> 1, height |-> 1], [version |-> 2, height |-> 250],
      [version |-> 3, height |-> 500], [version |-> 4, height |-> 600],
      [version |-> 5, height |-> 800], [version |-> 6, height |-> 815],
      [version |-> 7, height |-> 900], [version |-> 8, height |-> 950],
      [version |-> 9, height |-> 1000], [version |-> 10, height |-> 1100]>>

PolicyNetworks == {"testnet", "NETWORK_ID.TESTNET"}

PolicyTxTypes == {"TRANSFER", "STAKE", "BURN", "CONVERT"}

MaxPolicyHeight == 2000

\* The version of the last fork of the schedule at or below the height.
getHfVersionForHeight(atHeight, network) ==
    LET active == {i \in 1 .. Len(TESTNET_HARDFORKS) :
                     TESTNET_HARDFORKS[i].height <= atHeight}
    IN  TESTNET_HARDFORKS[CHOOSE i \in active : \A j \in active : j <= i].version

getTxVersion(txType, atHeight, network) ==
    LET hf == getHfVersionForHeight(atHeight, network)
    IN  IF hf >= 10 THEN 4
        ELSE IF txType = "TRANSFER" /\ hf >= 2 THEN 3
        ELSE 2

getRctTypeFromHf7(atHeight, network) ==
    LET hf == getHfVersionForHeight(atHeight, network)
    IN  IF hf >= 10 THEN 9 ELSE IF hf >= 7 THEN 8 ELSE IF hf >= 3 THEN 7 ELSE 6

getRctType(atHeight, network) ==
    LET hf == getHfVersionForHeight(atHeight, network)
    IN  IF hf >= 10 THEN 9 ELSE IF hf >= 6 THEN 8 ELSE IF hf >= 3 THEN 7 ELSE 6

getActiveAssetType(atHeight, network) ==
    IF getHfVersionForHeight(atHeight, network) >= 6 THEN "SAL1" ELSE "SAL"

isCarrotActive(atHeight, network) == getHfVersionForHeight(atHeight, network) >= 10

\* The policy of a height for a transaction type: the five functions, and
\* the signature type that goes with the RCT type (test lines 210-223).
policy(atHeight, network, txType) ==
    [hf_version |-> getHfVersionForHeight(atHeight, network),
     tx_version |-> getTxVersion(txType, atHeight, network),
     rct_type |-> getRctType(atHeight, network),
     sig_type |-> IF getRctType(atHeight, network) = 9 THEN "TCLSAG" ELSE "CLSAG",
     asset_type |-> getActiveAssetType(atHeight, network),
     carrot_active |-> isCarrotActive(atHeight, network)]

PolicyCall(atHeight, network, txType) ==
    /\ lib = NoLib
    /\ lib' = [name |-> "policy",
               height |-> atHeight,
               network |-> network,
               txType |-> txType,
               result |-> policy(atHeight, network, txType)]
    /\ UNCHANGED libFrame

NextPolicy ==
    \/ \E atHeight \in 1 .. MaxPolicyHeight, network \in PolicyNetworks,
          txType \in PolicyTxTypes :
           PolicyCall(atHeight, network, txType)
    \/ LibClear

SpecPolicy == InitLib /\ [][NextPolicy]_vars

\* The table of the fork policy for testnet, as the specification gives it.
PolicyTable ==
    <<[hf |-> 1, height |-> 1, transfer |-> 2, rct |-> 6, sig |-> "CLSAG", asset |-> "SAL"],
      [hf |-> 2, height |-> 250, transfer |-> 3, rct |-> 6, sig |-> "CLSAG", asset |-> "SAL"],
      [hf |-> 3, height |-> 500, transfer |-> 3, rct |-> 7, sig |-> "CLSAG", asset |-> "SAL"],
      [hf |-> 6, height |-> 815, transfer |-> 3, rct |-> 8, sig |-> "CLSAG", asset |-> "SAL1"],
      [hf |-> 10, height |-> 1100, transfer |-> 4, rct |-> 9, sig |-> "TCLSAG", asset |-> "SAL1"]>>

\* The row with the greatest activation height not above the height.
PolicyRow(atHeight) ==
    LET active == {i \in 1 .. Len(PolicyTable) : PolicyTable[i].height <= atHeight}
    IN  PolicyTable[CHOOSE i \in active : \A j \in active : j <= i]

\* What the row says of every field but the fork version.
RowFields(row, r, txType) ==
    /\ r.tx_version = (IF txType = "TRANSFER" THEN row.transfer
                       ELSE IF r.hf_version >= 10 THEN 4 ELSE 2)
    /\ r.rct_type = row.rct
    /\ r.sig_type = row.sig
    /\ r.asset_type = row.asset
    /\ r.carrot_active = (r.hf_version >= 10)

\* C30 as stated: the policy of a height is the row of the table with the
\* greatest activation height not above it: its fork version, transaction
\* version, RCT type, signature type and asset, with version 2 before fork
\* 10 and 4 from it for the types other than TRANSFER, and carrot_active
\* exactly when the fork version is at least 10.
C30_PolicyIsTableRow ==
    lib.name = "policy" =>
        /\ lib.result.hf_version = PolicyRow(lib.height).hf
        /\ RowFields(PolicyRow(lib.height), lib.result, lib.txType)

\* C30, amended: the fork version is the version of the last of the ten
\* forks of the schedule at or below the height, so it is at least the
\* version of the row and below that of the next row (4 at 600, 5 at 800, 7
\* at 900, 8 at 950, 9 at 1000); the other fields are those of the row.
C30_PolicyFieldsAreTableRow ==
    lib.name = "policy" =>
        /\ \E i \in 1 .. Len(TESTNET_HARDFORKS) :
               /\ TESTNET_HARDFORKS[i].height <= lib.height
               /\ i < Len(TESTNET_HARDFORKS) => lib.height < TESTNET_HARDFORKS[i + 1].height
               /\ lib.result.hf_version = TESTNET_HARDFORKS[i].version
        /\ lib.result.hf_version >= PolicyRow(lib.height).hf
        /\ \A i \in 1 .. Len(PolicyTable) :
               PolicyTable[i].height > lib.height
                   => lib.result.hf_version < PolicyTable[i].hf
        /\ RowFields(PolicyRow(lib.height), lib.result, lib.txType)

C30_Witness ==
    /\ lib.name = "policy"
    /\ lib.height = 900
    /\ lib.txType = "STAKE"
    /\ lib.result.hf_version = 7
    /\ lib.result.tx_version = 2
    /\ lib.result.rct_type = 8
    /\ lib.result.asset_type = "SAL1"
    /\ ~lib.result.carrot_active


(***************************************************************************)
(* Every storage method called twice in a row.  op holds the call made     *)
(* last, whether it repeats the call before it, and the storage as that    *)
(* call found it.                                                          *)
(***************************************************************************)

StorageState == <<outputs, transactions, blockHashes>>

Invoked(call) ==
    [ name   |-> call.name,
      call   |-> call,
      repeat |-> op.name # "none" /\ op.call = call,
      before |-> StorageState ]

idemFrame == <<reorg, reader, chainVars, txn, rpc, lib, toolVars>>

TwicePutOutput(ki, h) ==
    /\ outputs' = putOutput(outputs, WalletOutput(ki, h, 1, "tx_a", 0))
    /\ op' = Invoked([name |-> "putOutput", ki |-> ki, h |-> h])
    /\ UNCHANGED <<transactions, blockHashes, idemFrame>>

TwiceMarkOutputSpent(ki, tx, h) ==
    /\ outputs' = markOutputSpent(outputs, ki, tx, h)
    /\ op' = Invoked([name |-> "markOutputSpent", ki |-> ki, tx |-> tx, h |-> h])
    /\ UNCHANGED <<transactions, blockHashes, idemFrame>>

TwiceUnspendOutputsAbove(h) ==
    /\ outputs' = unspendOutputsAbove(outputs, h)
    /\ op' = Invoked([name |-> "unspendOutputsAbove", h |-> h])
    /\ UNCHANGED <<transactions, blockHashes, idemFrame>>

TwiceDeleteOutputsAbove(h) ==
    /\ outputs' = deleteOutputsAbove(outputs, h)
    /\ op' = Invoked([name |-> "deleteOutputsAbove", h |-> h])
    /\ UNCHANGED <<transactions, blockHashes, idemFrame>>

TwicePutTransaction(tx, h) ==
    /\ transactions' = putTransaction(transactions, tx, h)
    /\ op' = Invoked([name |-> "putTransaction", tx |-> tx, h |-> h])
    /\ UNCHANGED <<outputs, blockHashes, idemFrame>>

TwiceDeleteTransactionsAbove(h) ==
    /\ transactions' = deleteTransactionsAbove(transactions, h)
    /\ op' = Invoked([name |-> "deleteTransactionsAbove", h |-> h])
    /\ UNCHANGED <<outputs, blockHashes, idemFrame>>

TwicePutBlockHash(h, hash) ==
    /\ blockHashes' = putBlockHash(blockHashes, h, hash)
    /\ op' = Invoked([name |-> "putBlockHash", h |-> h, hash |-> hash])
    /\ UNCHANGED <<outputs, transactions, idemFrame>>

TwiceDeleteBlockHashesAbove(h) ==
    /\ blockHashes' = deleteBlockHashesAbove(blockHashes, h)
    /\ op' = Invoked([name |-> "deleteBlockHashesAbove", h |-> h])
    /\ UNCHANGED <<outputs, transactions, idemFrame>>

TwiceClear ==
    /\ outputs' = clear(outputs)
    /\ transactions' = clear(transactions)
    /\ blockHashes' = clear(blockHashes)
    /\ op' = Invoked([name |-> "clear"])
    /\ UNCHANGED idemFrame

\* A hash other than the one the node reports: the block of a lost fork.
ForkHashOf(h) == 200 + h

\* The key images of the outputs the repeated calls are made on.
IdemKeyImages == {"o1"}

NextIdem ==
    \/ \E ki \in IdemKeyImages, h \in Heights : TwicePutOutput(ki, h)
    \/ \E ki \in IdemKeyImages, a \in SpentArgs : TwiceMarkOutputSpent(ki, a[1], a[2])
    \/ \E h \in Heights : TwiceUnspendOutputsAbove(h)
    \/ \E h \in Heights : TwiceDeleteOutputsAbove(h)
    \/ \E tx \in TxHashes, h \in Heights : TwicePutTransaction(tx, h)
    \/ \E h \in Heights : TwiceDeleteTransactionsAbove(h)
    \/ \E h \in Heights : \E hash \in {HashOf(h), ForkHashOf(h)} : TwicePutBlockHash(h, hash)
    \/ \E h \in Heights : TwiceDeleteBlockHashesAbove(h)
    \/ TwiceClear

SpecIdem == InitStore /\ [][NextIdem]_vars

\* C31: a storage method called a second time in a row with the same
\* arguments leaves outputs, transactions and block hashes as the first call
\* left them.
C31_SecondCallChangesNothing ==
    (op.name # "none" /\ op.repeat) => StorageState = op.before

\* unspendOutputsAbove called right after itself on a storage that holds an
\* output, a transaction and a block hash.
C31_Witness ==
    /\ op.name = "unspendOutputsAbove"
    /\ op.repeat
    /\ \E k \in DOMAIN outputs :
           /\ ~outputs[k].isSpent
           /\ k \in DOMAIN op.before[1]
           /\ ~op.before[1][k].isSpent
    /\ DOMAIN transactions # {}
    /\ DOMAIN blockHashes # {}

(***************************************************************************)
(* Switching back and forth.  The manager is constructed on a main chain   *)
(* of InitShort blocks; every submitted block is new, has a timestamp in   *)
(* range, names a stored block as its parent and passes the validator.     *)
(* The difficulty computed for an alt block grows as its timestamps get    *)
(* closer, so it may exceed that of every main block.                      *)
(***************************************************************************)

BackNew == 3

BackHashes == 2001 .. (2000 + BackNew)

BackDifficulties == {1, 150, 1000}

InitBack ==
    /\ main = buildMainChain(InitShort)
    /\ altBlocks = EmptyMap
    /\ invalidBlocks = {}
    /\ last = NoCall
    /\ txn = NoTransfer
    /\ rpc = NoRequest
    /\ op = NoOp
    /\ lib = NoLib
    /\ node = NewNode
    /\ provider = ProviderLoaded
    /\ worker = WorkerReady
    /\ outputs = EmptyMap
    /\ transactions = EmptyMap
    /\ blockHashes = EmptyMap
    /\ reorg = Idle
    /\ reader = NoRead

NextBack ==
    \E blockHash \in {h \in BackHashes \ SeenHashes :
                        \A g \in BackHashes \ SeenHashes : h <= g},
       prevHash \in {main[i].blockHash : i \in 1 .. Len(main)} \cup DOMAIN altBlocks,
       d \in BackDifficulties :
        HandleBlock(blockHash,
                    [ prevHash |-> prevHash, timestamp |-> 2000000,
                      difficulty |-> InitDifficulty, weight |-> InitWeight ],
                    [rejectAlt |-> FALSE, failAt |-> 0], d)

SpecBack == InitBack /\ [][NextBack]_vars

MainHashes(m) == [i \in 1 .. Len(m) |-> m[i].blockHash]

\* The cumulative difficulty of the main chain at the height of its block
\* with this hash.
CumulativeAt(m, hash) == m[findBlockByHash(m, hash) + 1].cumulativeDifficulty

\* The step submits a block whose parent is the tip that the switch just
\* before it took off the main chain.
ExtendsReplacedTip ==
    /\ SwitchSucceeded
    /\ Len(last.switch.disconnected) > 0
    /\ last'.made
    /\ last'.prevHash = last.switch.disconnected[1].blockHash

\* The difficulty the step computed for the block it was given.
ComputedDifficulty ==
    IF last'.hash \in DOMAIN altBlocks'
    THEN altBlocks'[last'.hash].cumulativeDifficulty
           - altBlocks[last'.prevHash].cumulativeDifficulty
    ELSE getCumulativeDifficulty(main')
           - main'[Len(main') - 1].cumulativeDifficulty

\* C32: after a switch replaced main blocks A1..An, a block that extends An
\* and makes that fork (the cumulative difficulty An had on the main chain,
\* plus the block's own difficulty) heavier than the main chain switches the
\* main chain back to the original blocks followed by the new block.
C32_SwitchBackRestoresOriginal ==
    [][ ( /\ ExtendsReplacedTip
          /\ getCumulativeDifficulty(last.mainBefore) + ComputedDifficulty
               > getCumulativeDifficulty(main) )
        => MainHashes(main') = Append(MainHashes(last.mainBefore), last'.hash) ]_vars


NonDecreasing(m) ==
    \A i \in 1 .. Len(m) - 1 :
        m[i].cumulativeDifficulty <= m[i + 1].cumulativeDifficulty

\* C34: after a successful chain switch the cumulative difficulty of the main
\* tip is strictly greater than it was before the call, and the cumulative
\* difficulty of the main chain does not decrease with the height.
C34_SwitchGainsWork ==
    SwitchSucceeded =>
        /\ getCumulativeDifficulty(main) > getCumulativeDifficulty(last.mainBefore)
        /\ NonDecreasing(main)


\* C33: no block hash is in both the main chain and the alt map, and no hash
\* of the known-invalid set is in the main chain or in the alt map.
C33_MainAltInvalidDisjoint ==
    /\ Range(MainHashes(main)) \cap DOMAIN altBlocks = {}
    /\ invalidBlocks \cap Range(MainHashes(main)) = {}
    /\ invalidBlocks \cap DOMAIN altBlocks = {}

\* A switch has moved a block of the original chain into the alt map and a
\* submitted block into the main chain, and a block is known to be invalid.
C33_Witness ==
    /\ invalidBlocks # {}
    /\ \E h \in DOMAIN altBlocks : h \notin NewHashes
    /\ \E h \in Range(MainHashes(main)) : h \in NewHashes

(***************************************************************************)
(* The Node adapter one await at a time: _fetchWithTimeout arms a timer    *)
(* that aborts the fetch, and clears it when the fetch settles (when the   *)
(* response's status line and headers are in); the body is read by a       *)
(* second await, response.json().  The timer and the sleep before a retry  *)
(* are the program's own and come due; what the node sends, and when, is   *)
(* up to the node.                                                         *)
(***************************************************************************)

\* What a fetch that settles with a response may carry: an HTTP error status,
\* or a status in the 200s with a body still to be read.
HeaderResponses ==
    {r \in Responses : r.kind \notin {"network_error", "timeout"}}

\* The responses whose body is read: response.ok was true.
BodyResponses ==
    {r \in HeaderResponses : r.kind \notin {"http_401", "http_error"}}

\* The loop body's way out of one attempt, given what the attempt came to.
Settled(resp) ==
    LET d == Disposition(rpc.method, resp, rpc.attempt, rpc.attempts)
        cleared == [rpc EXCEPT !.timer = FALSE]
    IN  IF d.do = "return"
        THEN [cleared EXCEPT !.pc = "returned", !.result = d.result]
        ELSE IF d.do = "exhausted"
        THEN [cleared EXCEPT !.pc = "returned", !.lastError = d.lastError,
                              !.result = Failure(d.lastError)]
        ELSE [cleared EXCEPT !.pc = "sleeping", !.lastError = d.lastError]

\* A method of a client made from options is called; the loop's first pass
\* sends the first request and arms its timer.
NodeCall(method, options) ==
    LET client == RPCClient(options)
        attempts == client.retries + 1
        started == [ pc |-> "fetching", method |-> method,
                     retries |-> client.retries, attempts |-> attempts,
                     attempt |-> 1, requests |-> 1, timer |-> TRUE,
                     body |-> [kind |-> "none"],
                     lastError |-> NullError, result |-> Failure(NullError) ]
    IN  /\ rpc.pc = "idle"
        /\ rpc' = IF 1 <= attempts THEN started
                  ELSE [started EXCEPT !.pc = "returned", !.requests = 0,
                                       !.timer = FALSE]
        /\ UNCHANGED rpcFrame

\* fetch resolves with a response; the finally block clears the timer.  A
\* status outside the 200s is dealt with at once, otherwise the method awaits
\* response.json().
HeadersArrive(resp) ==
    /\ rpc.pc = "fetching"
    /\ rpc' = IF resp \in BodyResponses
              THEN [rpc EXCEPT !.pc = "reading", !.timer = FALSE, !.body = resp]
              ELSE Settled(resp)
    /\ UNCHANGED rpcFrame

\* fetch rejects: the transport failed.
FetchFails ==
    /\ rpc.pc = "fetching"
    /\ rpc' = Settled([kind |-> "network_error"])
    /\ UNCHANGED rpcFrame

\* The timer comes due while the fetch is pending: controller.abort().
TimerFires ==
    /\ rpc.pc = "fetching"
    /\ rpc.timer
    /\ rpc' = Settled([kind |-> "timeout"])
    /\ UNCHANGED rpcFrame

\* response.json() settles: the body has arrived and is parsed, or is not
\* JSON.
BodyArrives ==
    /\ rpc.pc = "reading"
    /\ rpc' = Settled(rpc.body)
    /\ UNCHANGED rpcFrame

\* _sleep(retryDelay) resolves: the loop's next pass sends the next request.
NodeWake ==
    /\ rpc.pc = "sleeping"
    /\ rpc' = [rpc EXCEPT !.pc = "fetching", !.attempt = @ + 1,
                          !.requests = @ + 1, !.timer = TRUE,
                          !.body = [kind |-> "none"]]
    /\ UNCHANGED rpcFrame

NextNode ==
    \/ \E method \in Methods, options \in ClientOptions : NodeCall(method, options)
    \/ \E resp \in HeaderResponses : HeadersArrive(resp)
    \/ FetchFails
    \/ TimerFires
    \/ BodyArrives
    \/ NodeWake
    \/ CallReturn

SpecNode ==
    /\ InitRpc
    /\ [][NextNode]_vars
    /\ WF_vars(TimerFires)
    /\ WF_vars(NodeWake)

InCall == rpc.pc \in {"fetching", "reading", "sleeping"}

AtMost(n) == IF n > 0 THEN n ELSE 0

\* C35: a call issues at most retries + 1 requests, and it returns.
C35_CallTerminates ==
    /\ [](rpc.pc # "idle" => rpc.requests <= AtMost(rpc.retries + 1))
    /\ [](InCall => <>(rpc.pc = "returned"))


(***************************************************************************)
(* TestnetNode, the in-memory node (unnamed/part_004).  A transaction is   *)
(* the object handed to sendRawTransaction: `id` tells the objects apart   *)
(* and `keyImages` is tx._meta?.keyImages || [], the empty set for a       *)
(* transaction without _meta.  A block is mined from the mempool: the      *)
(* miner takes drainMempool() and passes the transactions to addBlock as   *)
(* txData.userTxs.                                                         *)
(***************************************************************************)
NodeKeyImages == {"k1", "k2"}

MaxSent == 3

MaxNodeBlocks == 2

\* The key images of a sequence of transactions.
KeyImagesOf(txs) == UNION {txs[i].keyImages : i \in DOMAIN txs}

\* TestnetNode.addBlock, lines 53-131, as far as the user transactions go
\* (lines 106-114): the block is pushed and every key image of every
\* txData.userTxs entry is added to spentKeyImages, unchecked.
nodeAddBlock(n, userTxs) ==
    [n EXCEPT !.blocks = Append(@, userTxs),
              !.spentKeyImages = @ \cup KeyImagesOf(userTxs)]

\* drainMempool(), line 137.
drainMempool(n) == [n EXCEPT !.mempool = <<>>]

\* TestnetNode.sendRawTransaction, lines 347-363: a key image found in
\* spentKeyImages rejects the transaction; otherwise it is pushed to the
\* mempool and the answer is OK.
sendRawTransaction(n, tx) ==
    IF tx.keyImages \cap n.spentKeyImages # {}
    THEN [n EXCEPT !.sent = @ + 1, !.result = "double_spend"]
    ELSE [n EXCEPT !.sent = @ + 1, !.result = "OK",
                   !.mempool = Append(@, tx)]

nodeFrame == <<storageVars, chainVars, txn, rpc, op, lib, provider, worker>>

SendRaw(kis) ==
    /\ node.sent < MaxSent
    /\ node' = sendRawTransaction(node, [id |-> node.sent + 1, keyImages |-> kis])
    /\ UNCHANGED nodeFrame

MineBlock ==
    /\ Len(node.blocks) < MaxNodeBlocks
    /\ node' = [nodeAddBlock(drainMempool(node), node.mempool)
                  EXCEPT !.result = "none"]
    /\ UNCHANGED nodeFrame

NextTestnet ==
    \/ \E kis \in SUBSET NodeKeyImages : SendRaw(kis)
    \/ MineBlock

SpecTestnet == InitRpc /\ [][NextTestnet]_vars

\* The transactions the node has accepted: those waiting in the mempool and
\* those mined into a block.
AcceptedTxs ==
    {node.mempool[i] : i \in DOMAIN node.mempool}
      \cup UNION {{node.blocks[b][i] : i \in DOMAIN node.blocks[b]} :
                    b \in DOMAIN node.blocks}

\* C39: no key image is carried by two accepted transactions, and
\* sendRawTransaction answers OK only for a transaction none of whose key
\* images is in a mined block or in a transaction waiting in the mempool.
C39_NoKeyImageTwice ==
    \A t1 \in AcceptedTxs : \A t2 \in AcceptedTxs :
        t1.id # t2.id => t1.keyImages \cap t2.keyImages = {}


(***************************************************************************)
(* Two transfer() calls on one wallet.  Each call is the code of           *)
(* transfer.js between two awaits, as above, for a valid address, without  *)
(* subtractFeeFromAmount and without dryRun; the wallet's outputs have     *)
(* their global index cached, so resolveGlobalIndices asks the node        *)
(* nothing.  txn holds the two calls; any step of one may follow any step  *)
(* of the other, and a call may start when the other has returned.         *)
(***************************************************************************)
Builds == {1, 2}

BuildAmounts == {1, 5}

NoBuild == [pc |-> "idle"]

buildFrame == <<outputs, txFrame>>

\* Lines 101-132: getInfo is awaited.  afterBroadcast tells whether the other
\* call had returned its broadcast transaction when this one started.
BuildStart(i, amount) ==
    /\ txn[i].pc = "idle"
    /\ txn' = [txn EXCEPT ![i] =
                  [ pc |-> "getInfo", error |-> "", totalSend |-> amount,
                    currentHeight |-> NULL, selected |-> {}, inputs |-> {},
                    fee |-> 0, sent |-> FALSE,
                    afterBroadcast |-> \E j \in Builds : txn[j].pc = "done" ]]
    /\ UNCHANGED buildFrame

\* Lines 132-137: getInfo has answered; storage.getOutputs is awaited.
BuildGetInfo(i, success) ==
    /\ txn[i].pc = "getInfo"
    /\ txn' = [txn EXCEPT ![i] =
                  IF success
                  THEN [@ EXCEPT !.pc = "getOutputs", !.currentHeight = TipHeight]
                  ELSE [@ EXCEPT !.pc = "failed",
                                 !.error = "Failed to get daemon info"]]
    /\ UNCHANGED buildFrame

\* Lines 137-190: the outputs storage.getOutputs returned are filtered, the
\* fee is estimated and inputs are selected; no output is marked or held
\* back for the call.  prepareInputs is awaited.
BuildSelect(i, selection) ==
    LET spendable == {k \in getOutputs(outputs) :
                          isSpendable(outputs[k], txn[i].currentHeight)}
        estimatedFee == estimateTransactionFee(2, 1 + 1)
        target == txn[i].totalSend + estimatedFee
        finalFee == estimateTransactionFee(
                        Cardinality(selection.selected),
                        1 + (IF selection.changeAmount > 0 THEN 1 ELSE 0))
    IN  /\ txn[i].pc = "getOutputs"
        /\ spendable # {} => selection \in selectUTXOs(outputs, spendable, target,
                                                         estimatedFee \div 2)
        /\ spendable = {} => selection = [selected |-> {}, changeAmount |-> 0]
        /\ txn' = [txn EXCEPT ![i] =
                      IF spendable = {}
                      THEN [@ EXCEPT !.pc = "failed",
                                     !.error = "No spendable outputs available"]
                      ELSE IF selection.selected = {}
                      THEN [@ EXCEPT !.pc = "failed",
                                     !.error = "Insufficient balance"]
                      ELSE [@ EXCEPT !.pc = "prepare",
                                     !.selected = selection.selected,
                                     !.fee = finalFee]]
        /\ UNCHANGED buildFrame

\* Lines 192-250: prepareInputs has answered, the transaction is built,
\* signed and serialized, and daemon.sendRawTransaction is called with it.
BuildPrepare(i, decoysOk) ==
    /\ txn[i].pc = "prepare"
    /\ txn' = [txn EXCEPT ![i] =
                  IF decoysOk
                  THEN [@ EXCEPT !.pc = "send", !.inputs = txn[i].selected,
                                 !.sent = TRUE]
                  ELSE [@ EXCEPT !.pc = "failed",
                                 !.error = "Failed to fetch decoys"]]
    /\ UNCHANGED buildFrame

\* Lines 250-272: sendRawTransaction has answered; the call returns the
\* transaction or throws.  Nothing is written to the storage either way.
BuildReply(i, accepted) ==
    /\ txn[i].pc = "send"
    /\ txn' = [txn EXCEPT ![i] =
                  IF accepted
                  THEN [@ EXCEPT !.pc = "done"]
                  ELSE [@ EXCEPT !.pc = "failed",
                                 !.error = "Transaction rejected"]]
    /\ UNCHANGED buildFrame

InitBuilds ==
    /\ outputs \in {TxWallet(WalletKeys, frozen) : frozen \in SUBSET {"o2", "o3"}}
    /\ transactions = EmptyMap
    /\ blockHashes = EmptyMap
    /\ reorg = Idle
    /\ reader = NoRead
    /\ main = <<>>
    /\ altBlocks = EmptyMap
    /\ invalidBlocks = {}
    /\ last = NoCall
    /\ txn = [i \in Builds |-> NoBuild]
    /\ rpc = NoRequest
    /\ op = NoOp
    /\ lib = NoLib
    /\ node = NewNode
    /\ provider = ProviderLoaded
    /\ worker = WorkerReady

NextBuilds ==
    \E i \in Builds :
        \/ \E amount \in BuildAmounts : BuildStart(i, amount)
        \/ \E success \in BOOLEAN : BuildGetInfo(i, success)
        \/ \E selection \in Selections : BuildSelect(i, selection)
        \/ \E decoysOk \in BOOLEAN : BuildPrepare(i, decoysOk)
        \/ \E accepted \in BOOLEAN : BuildReply(i, accepted)

SpecBuilds == InitBuilds /\ [][NextBuilds]_vars

\* The call has handed its transaction to daemon.sendRawTransaction.
Broadcast(i) == txn[i].pc \in {"send", "done", "failed"} /\ txn[i].sent

\* C36: two builds on the same wallet storage, interleaved at their awaits
\* or one after the other, never both broadcast a transaction that spends
\* the same wallet output.
C36_NoOutputBroadcastTwice ==
    (Broadcast(1) /\ Broadcast(2)) => txn[1].inputs \cap txn[2].inputs = {}


(***************************************************************************)
(* crypto/provider.js.  A backend object is [kind, ready]: a               *)
(* JsCryptoBackend works as constructed (backend-js.js, init does          *)
(* nothing), a WasmCryptoBackend has wasm = null until its init() has      *)
(* loaded the module (backend-wasm.js 40-45) and throws from keccak256 and *)
(* blake2b until then (47-58).  currentBackend is an index into objects.   *)
(* setCryptoBackend is one action per stretch between two awaits; two      *)
(* calls may be in progress at once.                                       *)
(***************************************************************************)
MaxObjects == 3

BackendTypes == {"js", "wasm", "native"}

ProviderCalls == {1, 2}

providerFrame == <<storageVars, chainVars, txn, rpc, op, lib, node, worker>>

\* new JsCryptoBackend() / new WasmCryptoBackend() assigned to currentBackend.
NewBackend(p, kind) ==
    [p EXCEPT !.objects = Append(@, [kind |-> kind, ready |-> kind = "js"]),
              !.currentBackend = Len(p.objects) + 1]

\* getCryptoBackend(), lines 44-50.
getCryptoBackend(p) ==
    IF p.currentBackend = 0 THEN NewBackend(p, "js") ELSE p

\* setCryptoBackend(type) up to its first await, lines 25-36.
SetCryptoBackendCall(c, type) ==
    /\ provider.calls[c].pc = "idle"
    /\ Len(provider.objects) < MaxObjects
    /\ provider' =
         IF type = "js"
         THEN [NewBackend(provider, "js") EXCEPT
                  !.calls[c] = [pc |-> "init", type |-> type,
                                obj |-> Len(provider.objects) + 1]]
         ELSE IF type = "wasm"
         THEN [provider EXCEPT !.calls[c] = [pc |-> "import", type |-> type]]
         ELSE [provider EXCEPT !.thrown = "Unknown crypto backend"]
    /\ UNCHANGED providerFrame

\* Lines 31-33: import('./backend-wasm.js') has resolved; the new backend is
\* assigned and its init() is awaited.
ImportResolves(c) ==
    /\ provider.calls[c].pc = "import"
    /\ provider' = [NewBackend(provider, "wasm") EXCEPT
                       !.calls[c] = [pc |-> "init", type |-> "wasm",
                                     obj |-> Len(provider.objects) + 1]]
    /\ UNCHANGED providerFrame

\* init() has resolved (backend-wasm.js 43-45: this.wasm is set); line 37
\* assigns backendType.
InitResolves(c) ==
    LET call == provider.calls[c]
    IN  /\ call.pc = "init"
        /\ provider' = [provider EXCEPT !.objects[call.obj].ready = TRUE,
                                        !.backendType = call.type,
                                        !.calls[c] = [pc |-> "idle"]]
        /\ UNCHANGED providerFrame

\* init() has rejected (loadWasm failed): setCryptoBackend throws from line
\* 33 and line 37 is not reached.
InitRejects(c) ==
    LET call == provider.calls[c]
    IN  /\ call.pc = "init"
        /\ call.type = "wasm"
        /\ provider' = [provider EXCEPT !.thrown = "init failed",
                                        !.calls[c] = [pc |-> "idle"]]
        /\ UNCHANGED providerFrame

\* keccak256(data) / blake2b(data, outLen, key), lines 64-70: the call goes
\* to getCryptoBackend(); hashed is the kind of the backend that computed
\* the hash, or "throws" when that backend is not initialised.
Keccak256Call ==
    LET p == getCryptoBackend(provider)
        backend == p.objects[p.currentBackend]
    IN  /\ provider' = [p EXCEPT !.hashed = IF backend.ready THEN backend.kind
                                            ELSE "throws"]
        /\ UNCHANGED providerFrame

NextProvider ==
    \/ \E c \in ProviderCalls, type \in BackendTypes : SetCryptoBackendCall(c, type)
    \/ \E c \in ProviderCalls : ImportResolves(c)
    \/ \E c \in ProviderCalls : InitResolves(c)
    \/ \E c \in ProviderCalls : InitRejects(c)
    \/ Keccak256Call

SpecProvider == InitRpc /\ [][NextProvider]_vars

\* The backend keccak256 and blake2b are dispatched to.
Dispatched ==
    LET p == getCryptoBackend(provider) IN p.objects[p.currentBackend]

\* getCurrentBackendType(), lines 56-58.
getCurrentBackendType == provider.backendType

\* C37: at every point where a caller can observe the provider,
\* getCurrentBackendType() names the backend keccak256 and blake2b are
\* dispatched to, and that backend is initialised.
C37_TypeNamesReadyBackend ==
    /\ Dispatched.kind = getCurrentBackendType
    /\ Dispatched.ready


(***************************************************************************)
(* The mining worker thread (unnamed/part_001).  The main thread posts     *)
(* messages; the worker's event loop hands the oldest one to the 'message' *)
(* handler when no JavaScript of the worker is running.  mine() is called  *)
(* from the handler and its loop contains no await, so while an activation *)
(* of mine() is in its loop the worker is running JavaScript.  `mining` is *)
(* the set of jobIds whose mine() activation is in its loop.               *)
(***************************************************************************)
MaxPosted == 3

HashReport == 64

JobIds == 1 .. MaxPosted

workerFrame == <<storageVars, chainVars, txn, rpc, op, lib, node, provider>>

\* worker.postMessage({type: 'job', jobId, ...}) or ({type: 'stop'}) on the
\* main thread.
PostMessage(type) ==
    /\ ~worker.exited
    /\ worker.posted < MaxPosted
    /\ worker' = [worker EXCEPT
                     !.posted = @ + 1,
                     !.inbox = Append(@, [type |-> type, jobId |-> worker.posted + 1])]
    /\ UNCHANGED workerFrame

\* parentPort.on('message'), lines 20-31, up to the loop of mine() (lines
\* 33-40): a 'job' is stored in currentJob and mine(msg) is entered; 'stop'
\* ends the process.
OnMessage ==
    LET msg == Head(worker.inbox)
    IN  /\ ~worker.exited
        /\ worker.mining = {}
        /\ worker.inbox # <<>>
        /\ worker' = IF msg.type = "job"
                     THEN [worker EXCEPT !.inbox = Tail(@),
                                         !.currentJob = msg.jobId,
                                         !.mining = @ \cup {msg.jobId}]
                     ELSE [worker EXCEPT !.inbox = Tail(@), !.exited = TRUE]
        /\ UNCHANGED workerFrame

\* mine(job), lines 42-63: the loop test and, when it holds, one pass of the
\* loop; when it fails mine() and the handler that called it return.
MineStep(jobId) ==
    /\ ~worker.exited
    /\ jobId \in worker.mining
    /\ worker' = IF worker.currentJob # 0 /\ worker.currentJob = jobId
                 THEN [worker EXCEPT !.hashCount = (@ + 1) % HashReport]
                 ELSE [worker EXCEPT !.mining = @ \ {jobId}]
    /\ UNCHANGED workerFrame

NextWorker ==
    \/ \E type \in {"job", "stop"} : PostMessage(type)
    \/ OnMessage
    \/ \E jobId \in JobIds : MineStep(jobId)

\* The worker thread runs: a loop that can take a pass takes it, and a
\* message that can be handed to the handler is handed to it.
SpecWorker ==
    /\ InitRpc
    /\ [][NextWorker]_vars
    /\ WF_vars(OnMessage)
    /\ WF_vars(\E jobId \in JobIds : MineStep(jobId))

\* C38: no two jobs are mined at once, and a job that is being hashed when
\* a 'job' or 'stop' message is waiting for the worker eventually stops
\* being hashed.
C38_SupersededJobStops ==
    /\ [](Cardinality(worker.mining) <= 1)
    /\ \A jobId \in JobIds :
          (jobId \in worker.mining /\ worker.inbox # <<>>)
              ~> (worker.exited \/ jobId \notin worker.mining)


(***************************************************************************)
(* mnemonicToSeed on mnemonics that are written down word by word: every   *)
(* word is in the list and the 25th is the checksum word, and the three    *)
(* words of a group are the words of a value w1 + N * a + N * N * b with   *)
(* w1, a, b below N, which may be 2^32 or more (N^3 = 4298942376).         *)
(***************************************************************************)

\* The indices of the three words that decode to w1, a, b (the inverse of
\* mnemonic.js 142-144).
TripleOf(w1, a, b) ==
    LET w2 == (w1 + a) % WORD_LIST_SIZE
    IN  <<w1, w2, (w2 + b) % WORD_LIST_SIZE>>

\* The groups: 0; N^3 - 1, the largest; 2^32 - 1 = 489 + 807 N + 1624 N^2;
\* 2^32 = 490 + 807 N + 1624 N^2; and N - 1.
WordTriples ==
    { TripleOf(0, 0, 0), TripleOf(1625, 1625, 1625), TripleOf(489, 807, 1624),
      TripleOf(490, 807, 1624), TripleOf(1625, 0, 0) }

\* val = w1 + N * a + N * N * b does not fit in 32 bits (its half above
\* 2^16, as in GroupBytes, is 2^16 or more).
GroupOverflows(w1, a, b) ==
    40 * b + ((w1 + WORD_LIST_SIZE * a + 22436 * b) \div 65536) >= 65536

\* The mnemonic of 24 words with the given triple in the groups of `where`
\* and the words of 0 elsewhere, and its checksum word.
MnemonicOf(language, triple, where) ==
    LET words == [k \in 1 .. 24 |->
                    WordAt(language,
                           IF ((k - 1) \div 3) + 1 \in where
                           THEN triple[((k - 1) % 3) + 1] ELSE 0)]
        checksumIndex == ChecksumIndex(words, language.prefixLength)
    IN  JoinWords(Append(words, words[checksumIndex + 1]), 1, 25, <<Space>>)

MnemonicOfWordsCall(languageName, triple, where) ==
    /\ lib = NoLib
    /\ LET mnemonic == MnemonicOf(getLanguage(languageName), triple, where)
       IN  lib' = [name |-> "mnemonicToSeed",
                   seed |-> <<>>,
                   language |-> languageName,
                   edit |-> "words",
                   mnemonic |-> mnemonic,
                   result |-> mnemonicToSeed(mnemonic, languageName)]
    /\ UNCHANGED libFrame

NextCanonical ==
    \/ NextMnemonic
    \/ \E language \in Languages, triple \in WordTriples,
          where \in {{1}, {8}, 1 .. 8} :
           MnemonicOfWordsCall(language.name, triple, where)

SpecCanonical == InitLib /\ [][NextCanonical]_vars

\* A group of the last mnemonic decodes to a value of 2^32 or more.
LastOverflows ==
    LET language == getLanguage(lib.language)
        N == WORD_LIST_SIZE
        idx(k) == indexOf(language, LastWords[k])
    IN  /\ Len(LastWords) = 25
        /\ \A k \in 1 .. 25 : idx(k) # -1
        /\ \E i \in 1 .. 8 :
              GroupOverflows(idx(3 * i - 2),
                             ((N - idx(3 * i - 2)) + idx(3 * i - 1)) % N,
                             ((N - idx(3 * i - 1)) + idx(3 * i)) % N)

\* C40: every mnemonic mnemonic_to_seed accepts is the canonical encoding of
\* the seed it returns: seed_to_mnemonic of that seed gives the same 25
\* words, and a mnemonic with a word triple whose value does not fit in 32
\* bits is rejected.
C40_AcceptedIsCanonical ==
    lib.name = "mnemonicToSeed" =>
        /\ lib.result.valid =>
              seedToMnemonic(lib.result.seed, lib.language)
                  = Returned(JoinWords(LastWords, 1, 25, <<Space>>))
        /\ LastOverflows => ~lib.result.valid

====
